---- MODULE Spec2Model ----
(***************************************************************************)
(* Verification model of Pulp-manager: the repo-group sync controller     *)
(* (services/repo_syncher.py), the task service (services/task_service.py),*)
(* the bulk repo remover (services/repo_remover.py) and the config         *)
(* reconciler (services/sync_config_parser.py).                            *)
(*                                                                         *)
(* Regular expressions are modelled by the set of BackendRepo ids whose    *)
(* repo name they match: a regex is [given, matches], given = FALSE for   *)
(* None, and re.search(regex, name) <=> id \in regex.matches.  None for a  *)
(* string field is the string "None".  Timestamps are modelled by whether *)
(* they are set (TRUE) or null (FALSE).                                    *)
(***************************************************************************)
EXTENDS Integers, Sequences, FiniteSets, TLC

(***************************************************************************)
(* Bounds of the model                                                     *)
(***************************************************************************)
NumRepos == 3
MaxConcurrent == 2
MaxHist == 5
MaxTasks == 2
MaxWaitCount == 2

(***************************************************************************)
(* Program constants                                                       *)
(***************************************************************************)
HealthPageSize == 5
HealthMaxFail == 3

None == "None"
Repos == 1..NumRepos
GroupNames == {"g", "h"}
ServerNames == {"a", "b"}

SYNC_STAGE_NAME == "sync repo"
REMOVE_BANNED_PACKAGES_STAGE_NAME == "remove banned packages"
PUBLISH_STAGE_NAME == "publish repo"

TaskState ==
    {"queued", "running", "completed", "failed", "canceled", "failed_to_start", "skipped"}

VARIABLES
    tasks,          \* table tasks: sequence of Task rows, index = id
    links,          \* table pulp_server_repo_tasks, in creation order
    backendRepos,   \* table pulp_server_repos of the backend, by id
    rollup,         \* PulpServer.repo_sync_health_rollup
    job,            \* status of the rq job of the run
    args,           \* arguments of the rq job (sync_task.sync_repos)
    pc,             \* position of RepoSyncher.sync_repos
    parentId,       \* id of the parent task of the run (0: none yet)
    selected,       \* repos_to_sync
    repo_tasks,     \* repo_tasks of sync_repos (ids)
    pending,        \* repo_tasks_pending of _do_sync_repos
    inprog,         \* tasks_in_progress of _do_sync_repos (insertion order)
    todo,           \* rest of tasks_in_progress_copy in the current tick
    healthIdx,      \* position of the loop of _calculate_repo_health
    syncCalls,      \* per task id: POSTs to the backend sync endpoint
    cancelPhase,    \* 0: not canceled, 1: canceled, 2: a tick began since
    lateCall,       \* a backend task was started while cancelPhase = 2
    raised,         \* ids of the child tasks for which a backend call raised
    remover,        \* state of a RepoRemover.remove_repos job
    config,         \* state of the config reconciler (PulpConfigParser)
    waitPolls,      \* per repo and stage: polls that found the backend task waiting
    snap,           \* state of a Snapshotter.snapshot_repos job
    client,         \* state of a Pulp3Client call
    content,        \* state of a remove_repo_content job
    pulpRepo        \* state of a backend repository over repeated syncs

syncVars == <<tasks, links, backendRepos, rollup, job, args, pc, parentId,
              selected, repo_tasks, pending, inprog, todo, healthIdx,
              syncCalls, cancelPhase, lateCall, raised>>

moreVars == <<waitPolls, snap, client, content, pulpRepo>>

nonSyncVars == <<remover, config, moreVars>>

vars == <<syncVars, nonSyncVars>>

(***************************************************************************)
(* Helpers on sequences                                                    *)
(***************************************************************************)
Range(s) == {s[i] : i \in 1..Len(s)}

Reverse(s) == [i \in 1..Len(s) |-> s[Len(s) + 1 - i]]

RECURSIVE SelectSeqIdx(_, _, _)
SelectSeqIdx(s, keep, i) ==
    IF i > Len(s) THEN <<>>
    ELSE IF s[i] \in keep THEN <<s[i]>> \o SelectSeqIdx(s, keep, i + 1)
    ELSE SelectSeqIdx(s, keep, i + 1)

Without(s, x) == SelectSeqIdx(s, Range(s) \ {x}, 1)

RECURSIVE SeqsUpTo(_, _)
SeqsUpTo(S, n) ==
    IF n = 0 THEN {<<>>}
    ELSE LET shorter == SeqsUpTo(S, n - 1)
         IN shorter \cup {Append(s, x) : s \in {q \in shorter : Len(q) = n - 1}, x \in S}

(***************************************************************************)
(* Rows                                                                    *)
(***************************************************************************)
\* class TaskType(Enum), members in the order of the class body
TaskType ==
    <<[name |-> "repo_sync", value |-> 1],
      [name |-> "repo_group_sync", value |-> 2],
      [name |-> "repo_snapshot", value |-> 3],
      [name |-> "repo_creation_from_git", value |-> 4],
      [name |-> "repo_removal", value |-> 5],
      [name |-> "remove_repo_content", value |-> 5]>>

TaskTypeNames == {TaskType[i].name : i \in 1..Len(TaskType)}

\* Task.task_type setter for a name: TaskType[value.lower()].value
task_type_setter(value) ==
    TaskType[CHOOSE i \in 1..Len(TaskType) : TaskType[i].name = value].value

\* Task.task_type getter: TaskType(task_type_id).name; a member whose value
\* is already taken is an alias of the first member with that value
task_type_getter(task_type_id) ==
    TaskType[CHOOSE i \in 1..Len(TaskType) :
                /\ TaskType[i].value = task_type_id
                /\ \A j \in 1..(i - 1) : TaskType[j].value # task_type_id].name

\* a row of the table tasks; task_type is what the getter returns for the
\* stored task_type_id
NewTask(parent, ttype, state, started, repo) ==
    [parent_task_id |-> parent, task_type |-> task_type_getter(task_type_setter(ttype)),
     state |-> state,
     date_started |-> started, date_finished |-> FALSE,
     pulp_server_repo_id |-> repo, stages |-> <<>>, error |-> FALSE]

\* detail["task_href"] is modelled by whether it is set, detail["msg"] by the
\* backend task state it reports (None before the backend task has ended)
NewStage(name, href, err) ==
    [name |-> name, task_href |-> href, error |-> err, msg |-> None]

\* TaskStageRepository.add for a task
AddStage(t, stage) == [t EXCEPT !.stages = Append(@, stage)]

\* TaskStageRepository.update of the last stage of a task
UpdateLastStage(t, href, err) ==
    [t EXCEPT !.stages[Len(t.stages)] =
        [@ EXCEPT !.task_href = href, !.error = err]]

\* detail = dict(current_stage.detail); detail["msg"] = "<stage> <state>. "
StageEnded(t, pulp_task_state) ==
    [t EXCEPT !.stages[Len(t.stages)] = [@ EXCEPT !.msg = pulp_task_state]]

(***************************************************************************)
(* pulp_helpers.get_pulp_server_repos                                      *)
(***************************************************************************)
NoRegex == [given |-> FALSE, matches |-> {}]
Regex(S) == [given |-> TRUE, matches |-> S]

RegexSearch(regex, r) == regex.given /\ r \in regex.matches

\* the mutation: a name that matches regex_include is taken even when it
\* matches regex_exclude
RepoMatchesIncludeWins(rows, r, regex_include, regex_exclude, exclude_no_remote) ==
    /\ ~(exclude_no_remote /\ ~rows[r].remote_feed)
    /\ \/ RegexSearch(regex_include, r)
       \/ ~regex_include.given /\ ~RegexSearch(regex_exclude, r)

RepoMatches(rows, r, regex_include, regex_exclude, exclude_no_remote) ==
    /\ ~(exclude_no_remote /\ ~rows[r].remote_feed)
    /\ ~RegexSearch(regex_exclude, r)
    /\ ~(regex_include.given /\ ~RegexSearch(regex_include, r))

get_pulp_server_repos(rows, regex_include, regex_exclude, exclude_no_remote) ==
    SelectSeqIdx([i \in 1..NumRepos |-> i],
                 {r \in Repos : rows[r].present
                     /\ RepoMatches(rows, r, regex_include, regex_exclude,
                                    exclude_no_remote)}, 1)

(***************************************************************************)
(* State before a sync run                                                 *)
(***************************************************************************)
\* the repo with a history: the first repo of the backend
HistRepo == CHOOSE r \in Repos : \A q \in Repos : r <= q
HistStates == {"completed", "failed"}

\* rows left by earlier sync runs of HistRepo, oldest first: for each run
\* a parent row and the child row linked to HistRepo
OldTasks(h) ==
    [i \in 1..(2 * Len(h)) |->
        IF i % 2 = 1
        THEN [NewTask(0, "repo_group_sync", "completed", TRUE, 0)
                 EXCEPT !.date_finished = TRUE]
        ELSE [NewTask(i - 1, "repo_sync", h[i \div 2], TRUE, HistRepo)
                 EXCEPT !.date_finished = TRUE]]

OldLinks(h) ==
    [i \in 1..Len(h) |-> [pulp_server_repo_id |-> HistRepo, task_id |-> 2 * i]]

InitRepos ==
    [r \in Repos |->
        [present |-> TRUE,
         remote_feed |-> (r % 3 # 0),
         remote_href |-> (r % 3 # 0),
         distribution_href |-> (r % 2 = 1),
         repo_sync_health |-> None]]

IncludeChoices == {NoRegex, Regex({1})}
ExcludeChoices == {NoRegex, Regex({1})}

\* no removal job and no config load in the picture
RemoverIdle == [pc |-> "off", args |-> [dry_run |-> FALSE]]
ConfigIdle == [pc |-> "off", repeated |-> FALSE]
SnapIdle == [pc |-> "off"]
ClientIdle == [pc |-> "off"]
ContentIdle == [pc |-> "off"]
PulpRepoIdle == [pc |-> "off"]

\* no backend task was polled yet
NoWaitPolls == [r \in Repos |-> [i \in 1..3 |-> 0]]

MoreIdle ==
    /\ waitPolls = NoWaitPolls
    /\ snap = SnapIdle
    /\ client = ClientIdle
    /\ content = ContentIdle
    /\ pulpRepo = PulpRepoIdle

\* a run is either scheduled (task_id None, modelled 0) or was enqueued by
\* the control plane together with a queued Task row
InitRun(h, a, withTask) ==
    /\ tasks = (IF withTask
                THEN Append(OldTasks(h), NewTask(0, "repo_group_sync", "queued", FALSE, 0))
                ELSE OldTasks(h))
    /\ links = OldLinks(h)
    /\ args = [a EXCEPT !.task_id = IF withTask THEN 2 * Len(h) + 1 ELSE 0]
    /\ syncCalls = [i \in 1..Len(tasks) |-> 0]
    /\ backendRepos = InitRepos
    /\ rollup = None
    /\ job = "queued"
    /\ pc = "idle"
    /\ parentId = 0
    /\ selected = <<>>
    /\ repo_tasks = <<>>
    /\ pending = <<>>
    /\ inprog = <<>>
    /\ todo = <<>>
    /\ healthIdx = 0
    /\ cancelPhase = 0
    /\ lateCall = FALSE
    /\ raised = {}
    /\ remover = RemoverIdle
    /\ config = ConfigIdle
    /\ MoreIdle

ArgsChoices ==
    [max_concurrent_syncs : 1..MaxConcurrent, regex_include : IncludeChoices,
     regex_exclude : ExcludeChoices, source_pulp_server_name : {None},
     task_id : {0}]

(***************************************************************************)
(* RepoSyncher.sync_repos: entry                                           *)
(***************************************************************************)
\* create_task_entry inside a worker job (self._job_id set)
create_task_entry == NewTask(0, "repo_group_sync", "running", TRUE, 0)

\* _get_task_entry: the row is put in state running whatever state it had
get_task_entry(t) == [t EXCEPT !.state = "running", !.date_started = TRUE]

WorkerStart ==
    /\ pc = "idle"
    /\ job = "queued"
    /\ IF args.task_id = 0
       THEN /\ tasks' = Append(tasks, create_task_entry)
            /\ syncCalls' = Append(syncCalls, 0)
            /\ parentId' = Len(tasks) + 1
       ELSE /\ tasks' = [tasks EXCEPT ![args.task_id] = get_task_entry(@)]
            /\ syncCalls' = syncCalls
            /\ parentId' = args.task_id
    /\ job' = "started"
    /\ pc' = (IF args.source_pulp_server_name # None THEN "register" ELSE "reconcile")
    /\ UNCHANGED <<links, backendRepos, rollup, args, selected, repo_tasks,
                   pending, inprog, todo, healthIdx, cancelPhase, lateCall, raised, nonSyncVars>>

\* the except branch of sync_repos: the parent is marked failed and the
\* exception propagates to the rq job
ParentFailed(t) == [t EXCEPT !.state = "failed", !.date_finished = TRUE, !.error = TRUE]

JobAfter(status) == IF job = "canceled" THEN job ELSE status

\* _reconcile_repos raises (PulpReconciler.reconcile failed)
ReconcileRaises ==
    /\ pc = "reconcile"
    /\ tasks' = [tasks EXCEPT ![parentId] =
                    ParentFailed(AddStage(@, NewStage("reconcile repos", FALSE, TRUE)))]
    /\ pc' = "failed"
    /\ job' = JobAfter("failed")
    /\ UNCHANGED <<links, backendRepos, rollup, args, parentId, selected, repo_tasks,
                   pending, inprog, todo, healthIdx, syncCalls, cancelPhase, lateCall, raised, nonSyncVars>>

\* PulpManager.add_repos_from_pulp_server: the repos of the source that
\* are missing on this pulp server get their rows
add_repos_from_pulp_server(rows) == [r \in Repos |-> [rows[r] EXCEPT !.present = TRUE]]

REGISTER_STAGE_NAME == "registering repos"

\* the mutation: the run goes on when the registration raised
after_register_continue(ok) == "reconcile"

\* sync_repos after the registration: _reconcile_repos follows, an
\* exception leaves the try block
after_register(ok) == IF ok THEN "reconcile" ELSE "failed"

\* source_pulp_server_name is given: the repos of the source are registered
RegisterRepos ==
    /\ pc = "register"
    /\ tasks' = [tasks EXCEPT ![parentId] =
                    AddStage(@, NewStage(REGISTER_STAGE_NAME, FALSE, FALSE))]
    /\ backendRepos' = add_repos_from_pulp_server(backendRepos)
    /\ pc' = after_register(TRUE)
    /\ UNCHANGED <<links, rollup, job, args, parentId, selected, repo_tasks, pending,
                   inprog, todo, healthIdx, syncCalls, cancelPhase, lateCall, raised,
                   nonSyncVars>>

\* add_repos_from_pulp_server raises
RegisterReposRaises ==
    /\ pc = "register"
    /\ tasks' = [tasks EXCEPT ![parentId] =
                    ParentFailed(AddStage(@, NewStage(REGISTER_STAGE_NAME, FALSE, FALSE)))]
    /\ pc' = after_register(FALSE)
    /\ job' = JobAfter("failed")
    /\ UNCHANGED <<links, backendRepos, rollup, args, parentId, selected, repo_tasks,
                   pending, inprog, todo, healthIdx, syncCalls, cancelPhase, lateCall,
                   raised, nonSyncVars>>

(***************************************************************************)
(* RepoSyncher._generate_tasks                                             *)
(***************************************************************************)
\* rows to create, one per repo of the list, in list order
tasks_to_create(repos, parent_task_id) ==
    [i \in 1..Len(repos) |-> NewTask(parent_task_id, "repo_sync", "queued", FALSE, repos[i])]

\* TableRepository.bulk_add returns the created rows last inserted first
\* (comment at sync_repos, "we get last inserted task first")
bulk_add_ids(base, n) == [i \in 1..n |-> base + n + 1 - i]

\* every link is given the repo of the first created task
repo_tasks_to_create_first(table, ids) ==
    [i \in 1..Len(ids) |->
        [pulp_server_repo_id |-> table[ids[1]].pulp_server_repo_id, task_id |-> ids[i]]]

\* one link per created task, taken from the task's own task_args
repo_tasks_to_create(table, ids) ==
    [i \in 1..Len(ids) |->
        [pulp_server_repo_id |-> table[ids[i]].pulp_server_repo_id, task_id |-> ids[i]]]

\* _reconcile_repos succeeds, then _get_repos_to_sync, _generate_tasks,
\* repo_tasks.reverse() and the preamble of _do_sync_repos
ReconcileAndGenerate ==
    /\ pc = "reconcile"
    /\ LET repos == get_pulp_server_repos(backendRepos, args.regex_include,
                                          args.regex_exclude, TRUE)
           withStages == [tasks EXCEPT ![parentId] =
                             AddStage(AddStage(@, NewStage("reconcile repos", FALSE, FALSE)),
                                      NewStage("sync repos", FALSE, FALSE))]
           table == withStages \o tasks_to_create(repos, parentId)
           ids == bulk_add_ids(Len(tasks), Len(repos))
       IN /\ selected' = repos
          /\ tasks' = table
          /\ syncCalls' = syncCalls \o [i \in 1..Len(repos) |-> 0]
          /\ links' = links \o repo_tasks_to_create(table, ids)
          /\ repo_tasks' = Reverse(ids)
          /\ pending' = Reverse(ids)
    /\ inprog' = <<>>
    /\ todo' = <<>>
    /\ pc' = "loop"
    /\ UNCHANGED <<backendRepos, rollup, job, args, parentId, healthIdx,
                   cancelPhase, lateCall, raised, nonSyncVars>>

(***************************************************************************)
(* RepoSyncher._do_sync_repos: the scheduler loop                          *)
(***************************************************************************)
\* inner while: pop pending tasks while len(tasks_in_progress) != max
RECURSIVE FillInProgress(_, _, _)
FillInProgress(p, ip, k) ==
    IF Len(p) > 0 /\ Len(ip) # k
    THEN FillInProgress(SubSeq(p, 1, Len(p) - 1), Append(ip, p[Len(p)]), k)
    ELSE <<p, ip>>

\* top of an iteration of the outer while: fill the slots and copy the dict
FillSlots ==
    /\ pc = "loop"
    /\ Len(pending) > 0 \/ Len(inprog) > 0
    /\ LET f == FillInProgress(pending, inprog, args.max_concurrent_syncs)
       IN /\ pending' = f[1]
          /\ inprog' = f[2]
          /\ todo' = f[2]
    /\ cancelPhase' = (IF cancelPhase = 1 THEN 2 ELSE cancelPhase)
    /\ pc' = "tick"
    /\ UNCHANGED <<tasks, links, backendRepos, rollup, job, args, parentId, selected,
                   repo_tasks, healthIdx, syncCalls, lateCall, raised, nonSyncVars>>

\* end of the for loop: _update_overall_sync_status, then sleep or continue
EndTick ==
    /\ pc = "tick"
    /\ todo = <<>>
    /\ pc' = "loop"
    /\ UNCHANGED <<tasks, links, backendRepos, rollup, job, args, parentId, selected,
                   repo_tasks, pending, inprog, todo, healthIdx, syncCalls,
                   cancelPhase, lateCall, raised, nonSyncVars>>

\* the outer while ends
LoopExit ==
    /\ pc = "loop"
    /\ Len(pending) = 0 /\ Len(inprog) = 0
    /\ pc' = "health"
    /\ healthIdx' = 1
    /\ UNCHANGED <<tasks, links, backendRepos, rollup, job, args, parentId, selected,
                   repo_tasks, pending, inprog, todo, syncCalls, cancelPhase, lateCall, raised, nonSyncVars>>

(***************************************************************************)
(* One visit of the for loop of _do_sync_repos.  The loop reads task.stages *)
(* once after db.refresh(task); the session is built with                  *)
(* expire_on_commit=False (database.py) and stages are added by task_id,   *)
(* so the collection read before _start_sync is the one tested after it:   *)
(* a task is either started or progressed in one visit, never both.        *)
(***************************************************************************)
Visiting(t) == pc = "tick" /\ Len(todo) > 0 /\ t = Head(todo)

Late == cancelPhase = 2

\* the mutation: the task is started and no stage is recorded
start_sync_without_stage(t, raisesAt) ==
    IF raisesAt = "none"
    THEN [t EXCEPT !.state = "running", !.date_started = TRUE]
    ELSE [t EXCEPT !.state = "failed_to_start", !.date_finished = TRUE, !.error = TRUE]

\* _start_sync: raisesAt is the backend call that raises, "none" if none does
start_sync(t, raisesAt) ==
    LET staged == AddStage(t, NewStage(SYNC_STAGE_NAME, FALSE, FALSE))
    IN IF raisesAt = "none"
       THEN [UpdateLastStage(staged, TRUE, FALSE)
                EXCEPT !.state = "running", !.date_started = TRUE]
       ELSE [UpdateLastStage(staged, FALSE, TRUE)
                EXCEPT !.state = "failed_to_start", !.date_finished = TRUE,
                       !.error = TRUE]

StartSync(raisesAt) ==
    \E t \in 1..Len(tasks) :
        /\ Visiting(t)
        /\ Len(tasks[t].stages) = 0
        /\ tasks' = [tasks EXCEPT ![t] = start_sync(@, raisesAt)]
        /\ syncCalls' = [syncCalls EXCEPT ![t] = IF raisesAt = "get_repo" THEN @ ELSE @ + 1]
        /\ inprog' = (IF raisesAt = "none" THEN inprog ELSE Without(inprog, t))
        /\ lateCall' = (lateCall \/ (Late /\ raisesAt # "get_repo"))
        /\ raised' = (IF raisesAt = "none" THEN raised ELSE raised \cup {t})
        /\ todo' = Tail(todo)
        /\ UNCHANGED <<links, backendRepos, rollup, job, args, pc, parentId, selected,
                       repo_tasks, pending, healthIdx, cancelPhase, nonSyncVars>>

StartSyncOk == StartSync("none")

StartSyncRaises == \E raisesAt \in {"get_repo", "sync_repo"} : StartSync(raisesAt)

\* _start_publication: ok = FALSE when a backend call raises before the
\* publish stage is added; the task is then marked failed
start_publication(t, ok) ==
    IF ok
    THEN AddStage(t, NewStage(PUBLISH_STAGE_NAME, TRUE, FALSE))
    ELSE [AddStage(t, NewStage(PUBLISH_STAGE_NAME, FALSE, TRUE))
             EXCEPT !.state = "failed", !.date_finished = TRUE]

\* the mutation: the publish stage is added before the remove banned
\* packages stage
start_remove_banned_packages_after_publish(t, outcome) ==
    AddStage(AddStage(t, NewStage(PUBLISH_STAGE_NAME, TRUE, FALSE)),
             NewStage(REMOVE_BANNED_PACKAGES_STAGE_NAME, outcome = "started",
                      outcome \notin {"internal", "nothing", "started"}))

\* _start_remove_banned_packages: the row after the call, for each outcome
\*   "raises_lookup"  get_repo or get_remote raises, no stage yet
\*   "internal"       feed in an internal domain, stage added, returns False
\*   "raises_find"    _find_packages_to_remove raises after the stage is added
\*   "nothing"        no banned package, returns False
\*   "raises_modify"  modify_repo raises
\*   "started"        modify task started, returns True
start_remove_banned_packages(t, outcome) ==
    CASE outcome = "raises_lookup" ->
            AddStage(t, NewStage(REMOVE_BANNED_PACKAGES_STAGE_NAME, FALSE, TRUE))
      [] outcome \in {"internal", "nothing"} ->
            AddStage(t, NewStage(REMOVE_BANNED_PACKAGES_STAGE_NAME, FALSE, FALSE))
      [] outcome \in {"raises_find", "raises_modify"} ->
            AddStage(t, NewStage(REMOVE_BANNED_PACKAGES_STAGE_NAME, FALSE, TRUE))
      [] outcome = "started" ->
            AddStage(t, NewStage(REMOVE_BANNED_PACKAGES_STAGE_NAME, TRUE, FALSE))

RemoveBannedRaises == {"raises_lookup", "raises_find", "raises_modify"}
RemoveBannedSkipped == {"internal", "nothing"}
RemoveBannedOutcomes == RemoveBannedRaises \cup RemoveBannedSkipped \cup {"started"}

\* the branch of _progress_sync for a completed backend task of the sync
\* stage; pe is the outcome of _publication_exists ("raises", "exists" also
\* covering a container repo, "missing"), rb of
\* _start_remove_banned_packages, pub of _start_publication
progress_sync_stage(t, pe, rb, pub) ==
    CASE pe = "raises" -> t
      [] pe = "exists" -> [t EXCEPT !.state = "completed", !.date_finished = TRUE]
      [] pe = "missing" ->
            LET r == start_remove_banned_packages(t, rb)
            IN IF rb \in RemoveBannedSkipped THEN start_publication(r, pub) ELSE r

\* the mutation: True is returned only from the branch that completes the
\* task, not from the except branch
sync_stage_complete_not_on_raise(pe, rb, pub) == pe = "exists"

\* TRUE when _progress_sync returns True (the task leaves tasks_in_progress)
sync_stage_complete(pe, rb, pub) ==
    \/ pe \in {"raises", "exists"}
    \/ pe = "missing" /\ rb \in RemoveBannedRaises
    \/ pe = "missing" /\ rb \in RemoveBannedSkipped /\ ~pub

\* TRUE when a backend call raised during the branch
sync_stage_raises(pe, rb, pub) ==
    \/ pe = "raises"
    \/ pe = "missing" /\ rb \in RemoveBannedRaises
    \/ pe = "missing" /\ rb \in RemoveBannedSkipped /\ ~pub

CurrentStage(t) == t.stages[Len(t.stages)]

Progressing(t) ==
    /\ Visiting(t)
    /\ Len(tasks[t].stages) > 0

\* current_stage.detail["task_href"] raises KeyError inside the except
\* branch when the stage has no task_href: the exception leaves
\* _progress_sync and _do_sync_repos and sync_repos marks the parent failed
ProgressFrame == <<links, backendRepos, rollup, args, parentId, selected,
                   repo_tasks, pending, healthIdx, syncCalls, cancelPhase, nonSyncVars>>

\* get_task raises
PollRaises ==
    \E t \in 1..Len(tasks) :
        /\ Progressing(t)
        /\ IF CurrentStage(tasks[t]).task_href
           THEN /\ tasks' = [tasks EXCEPT ![t] =
                        [UpdateLastStage(@, TRUE, TRUE)
                            EXCEPT !.state = "failed", !.date_finished = TRUE]]
                /\ inprog' = Without(inprog, t)
                /\ todo' = Tail(todo)
                /\ UNCHANGED <<pc, job>>
           ELSE /\ tasks' = [tasks EXCEPT ![parentId] = ParentFailed(@)]
                /\ pc' = "failed"
                /\ job' = JobAfter("failed")
                /\ UNCHANGED <<inprog, todo>>
        /\ raised' = raised \cup {t}
        /\ UNCHANGED lateCall
        /\ UNCHANGED ProgressFrame

\* the backend task is still running or waiting
PollPending ==
    \E t \in 1..Len(tasks) :
        /\ Progressing(t)
        /\ CurrentStage(tasks[t]).task_href
        /\ todo' = Tail(todo)
        /\ UNCHANGED <<tasks, inprog, pc, job, lateCall, raised>>
        /\ UNCHANGED ProgressFrame

\* the stage reports the end state but the task is left as it is
progress_failed_not_marked(t, pulp_task_state) == StageEnded(t, pulp_task_state)

\* the branch of _progress_sync (and of _progress_snapshot) for a backend
\* task that ended in a state other than completed
progress_failed(t, pulp_task_state) ==
    [StageEnded(t, pulp_task_state) EXCEPT !.state = "failed", !.date_finished = TRUE]

\* end states of a backend task other than completed
PulpTaskFailedStates == {"failed", "canceled"}

\* the backend task ended failed or canceled
PollFailed ==
    \E t \in 1..Len(tasks), pulp_task_state \in PulpTaskFailedStates :
        /\ Progressing(t)
        /\ CurrentStage(tasks[t]).task_href
        /\ tasks' = [tasks EXCEPT ![t] = progress_failed(@, pulp_task_state)]
        /\ inprog' = Without(inprog, t)
        /\ todo' = Tail(todo)
        /\ UNCHANGED <<pc, job, lateCall, raised>>
        /\ UNCHANGED ProgressFrame

\* the backend task of the sync stage completed
SyncStageCompleted ==
    \E t \in 1..Len(tasks), pe \in {"raises", "exists", "missing"},
       rb \in RemoveBannedOutcomes, pub \in BOOLEAN :
        /\ Progressing(t)
        /\ CurrentStage(tasks[t]).task_href
        /\ CurrentStage(tasks[t]).name = SYNC_STAGE_NAME
        /\ (pe # "missing") => (rb = "started" /\ pub)
        /\ (rb \notin RemoveBannedSkipped) => pub
        /\ tasks' = [tasks EXCEPT ![t] =
                        progress_sync_stage(StageEnded(@, "completed"), pe, rb, pub)]
        /\ inprog' = (IF sync_stage_complete(pe, rb, pub)
                      THEN Without(inprog, t) ELSE inprog)
        /\ lateCall' = (lateCall \/ (Late /\ pe = "missing"
                            /\ (rb \in {"raises_modify", "started"} \/ rb \in RemoveBannedSkipped)))
        /\ raised' = (IF sync_stage_raises(pe, rb, pub) THEN raised \cup {t} ELSE raised)
        /\ todo' = Tail(todo)
        /\ UNCHANGED <<pc, job>>
        /\ UNCHANGED ProgressFrame

\* the backend task of the remove banned packages stage completed
RemoveBannedCompleted ==
    \E t \in 1..Len(tasks), pub \in BOOLEAN :
        /\ Progressing(t)
        /\ CurrentStage(tasks[t]).task_href
        /\ CurrentStage(tasks[t]).name = REMOVE_BANNED_PACKAGES_STAGE_NAME
        /\ tasks' = [tasks EXCEPT ![t] =
                        start_publication(StageEnded(@, "completed"), pub)]
        /\ inprog' = (IF pub THEN inprog ELSE Without(inprog, t))
        /\ lateCall' = (lateCall \/ Late)
        /\ raised' = (IF pub THEN raised ELSE raised \cup {t})
        /\ todo' = Tail(todo)
        /\ UNCHANGED <<pc, job>>
        /\ UNCHANGED ProgressFrame

\* the backend task of the publish stage completed
PublishCompleted ==
    \E t \in 1..Len(tasks) :
        /\ Progressing(t)
        /\ CurrentStage(tasks[t]).task_href
        /\ CurrentStage(tasks[t]).name = PUBLISH_STAGE_NAME
        /\ tasks' = [tasks EXCEPT ![t] =
                        [StageEnded(@, "completed")
                            EXCEPT !.state = "completed", !.date_finished = TRUE]]
        /\ inprog' = Without(inprog, t)
        /\ todo' = Tail(todo)
        /\ UNCHANGED <<pc, job, lateCall, raised>>
        /\ UNCHANGED ProgressFrame

(***************************************************************************)
(* RepoSyncher._calculate_repo_health                                      *)
(***************************************************************************)
Min(a, b) == IF a < b THEN a ELSE b

\* filter_paged(page=1, page_size, pulp_server_repo_id=repo,
\* sort_by=date_created, order_by=desc): the states of the linked tasks,
\* most recent first
LastSyncs(table, lks, repo, page_size) ==
    LET mine == SelectSeqIdx([i \in 1..Len(lks) |-> i],
                             {i \in 1..Len(lks) : lks[i].pulp_server_repo_id = repo}, 1)
        n == Min(Len(mine), page_size)
    IN [i \in 1..n |-> table[lks[mine[Len(mine) + 1 - i]].task_id].state]

NumSuccess(last_syncs) == Cardinality({i \in 1..Len(last_syncs) : last_syncs[i] = "completed"})
NumFail(last_syncs) == Cardinality({i \in 1..Len(last_syncs) : last_syncs[i] # "completed"})

\* the amber band is one failure too wide
repo_health_wide(last_syncs) ==
    IF last_syncs[1] = "completed" THEN "green"
    ELSE IF NumFail(last_syncs) <= HealthMaxFail + 1 /\ NumSuccess(last_syncs) > 0 THEN "amber"
    ELSE "red"

repo_health(last_syncs) ==
    IF last_syncs[1] = "completed" THEN "green"
    ELSE IF NumFail(last_syncs) <= HealthMaxFail /\ NumSuccess(last_syncs) > 0 THEN "amber"
    ELSE "red"

CalcRepoHealth ==
    /\ pc = "health"
    /\ healthIdx <= Len(selected)
    /\ LET repo == selected[healthIdx]
           last_syncs == LastSyncs(tasks, links, repo, HealthPageSize)
       IN backendRepos' = [backendRepos EXCEPT ![repo].repo_sync_health =
                              repo_health(last_syncs)]
    /\ healthIdx' = healthIdx + 1
    /\ UNCHANGED <<tasks, links, rollup, job, args, pc, parentId, selected, repo_tasks,
                   pending, inprog, todo, syncCalls, cancelPhase, lateCall, raised, nonSyncVars>>

(***************************************************************************)
(* RepoSyncher._calculate_pulp_server_repo_health_rollup and the end of    *)
(* sync_repos                                                              *)
(***************************************************************************)
health_rollup(rows) ==
    LET present == {r \in Repos : rows[r].present}
        amber == {r \in present : rows[r].repo_sync_health = "amber"}
        red == {r \in present : rows[r].repo_sync_health \notin {"green", "amber"}}
    IN IF red # {} THEN "red" ELSE IF amber # {} THEN "amber" ELSE "green"

FinishRun ==
    /\ pc = "health"
    /\ healthIdx > Len(selected)
    /\ rollup' = health_rollup(backendRepos)
    /\ tasks' = [tasks EXCEPT ![parentId] =
                    [AddStage(AddStage(@, NewStage("calculate repo health", FALSE, FALSE)),
                              NewStage("calculate pulp server repo health roll up", FALSE, FALSE))
                        EXCEPT !.state = "completed", !.date_finished = TRUE]]
    /\ pc' = "done"
    /\ job' = JobAfter("finished")
    /\ UNCHANGED <<links, backendRepos, args, parentId, selected, repo_tasks, pending,
                   inprog, todo, healthIdx, syncCalls, cancelPhase, lateCall, raised, nonSyncVars>>

(***************************************************************************)
(* Control plane: PATCH /v1/tasks/{id} with state canceled                 *)
(* (JobManager.change_task_state).  The Task goes to canceled with         *)
(* date_finished stamped and its rq job is cancelled; a job that was       *)
(* still queued is never started.                                          *)
(***************************************************************************)
RunTask == IF parentId # 0 THEN parentId ELSE args.task_id

change_task_state(t) == [t EXCEPT !.state = "canceled", !.date_finished = TRUE]

CancelRun ==
    /\ RunTask # 0
    /\ tasks[RunTask].state \in {"queued", "running"}
    /\ pc \in {"idle", "reconcile", "loop", "tick", "health"}
    /\ tasks' = [tasks EXCEPT ![RunTask] = change_task_state(@)]
    /\ job' = "canceled"
    /\ cancelPhase' = 1
    /\ UNCHANGED <<links, backendRepos, rollup, args, pc, parentId, selected, repo_tasks,
                   pending, inprog, todo, healthIdx, syncCalls, lateCall, raised, nonSyncVars>>

(***************************************************************************)
(* Specification of a sync run                                             *)
(***************************************************************************)
InitSync ==
    \E a \in ArgsChoices, withTask \in BOOLEAN : InitRun(<<>>, a, withTask)

NextSync ==
    \/ WorkerStart
    \/ ReconcileRaises
    \/ ReconcileAndGenerate
    \/ FillSlots
    \/ StartSyncOk
    \/ StartSyncRaises
    \/ PollRaises
    \/ PollPending
    \/ PollFailed
    \/ SyncStageCompleted
    \/ RemoveBannedCompleted
    \/ PublishCompleted
    \/ EndTick
    \/ LoopExit
    \/ CalcRepoHealth
    \/ FinishRun

Spec == InitSync /\ [][NextSync]_vars

\* a sync run started from a schedule of the config file: validate_schema
\* asks for an integer max_concurrent_syncs and sets no minimum
ConfigArgsChoices ==
    [max_concurrent_syncs : 0..MaxConcurrent, regex_include : IncludeChoices,
     regex_exclude : ExcludeChoices, source_pulp_server_name : {None},
     task_id : {0}]

InitScheduled ==
    \E a \in ConfigArgsChoices, withTask \in BOOLEAN : InitRun(<<>>, a, withTask)

\* a poll finds that the backend task has left the states running and waiting
BackendTaskEnds ==
    \/ PollFailed
    \/ SyncStageCompleted
    \/ RemoveBannedCompleted
    \/ PublishCompleted

\* the controller keeps running, and no backend task is running or waiting
\* for ever
SpecScheduled ==
    InitScheduled /\ [][NextSync]_vars /\ WF_vars(NextSync) /\ SF_vars(BackendTaskEnds)

\* a sync run of a pulp server that syncs from another pulp server
InitImport ==
    \E a \in ArgsChoices, withTask \in BOOLEAN :
        InitRun(<<>>, [a EXCEPT !.source_pulp_server_name = "master"], withTask)

NextImport ==
    \/ NextSync
    \/ RegisterRepos
    \/ RegisterReposRaises

SpecImport == InitImport /\ [][NextImport]_vars

\* a sync run with the control plane able to cancel its task
NextCancel ==
    \/ NextSync
    \/ CancelRun

SpecCancel == InitSync /\ [][NextCancel]_vars

\* a run over a repo with a history of earlier runs
InitHealth ==
    \E h \in SeqsUpTo(HistStates, MaxHist) :
        InitRun(h, [max_concurrent_syncs |-> 1, regex_include |-> Regex({HistRepo}),
                    regex_exclude |-> NoRegex, source_pulp_server_name |-> None,
                    task_id |-> 0], FALSE)

SpecHealth == InitHealth /\ [][NextSync]_vars

(***************************************************************************)
(* A sync run whose backend tasks may sit in state waiting.  _progress_sync *)
(* treats waiting like running: it returns False and the task is polled    *)
(* again at the next tick.  waitPolls counts, per repo and stage, the polls *)
(* that found the backend task waiting; the controller keeps no such count.*)
(***************************************************************************)
\* the backend task is waiting
PollWaiting ==
    \E t \in 1..Len(tasks) :
        /\ Progressing(t)
        /\ CurrentStage(tasks[t]).task_href
        /\ LET r == tasks[t].pulp_server_repo_id
               i == Len(tasks[t].stages)
           IN /\ waitPolls[r][i] <= MaxWaitCount
              /\ waitPolls' = [waitPolls EXCEPT ![r][i] = @ + 1]
        /\ todo' = Tail(todo)
        /\ UNCHANGED <<tasks, inprog, pc, job, lateCall, raised>>
        /\ UNCHANGED <<links, backendRepos, rollup, args, parentId, selected,
                       repo_tasks, pending, healthIdx, syncCalls, cancelPhase,
                       remover, config, snap, client, content, pulpRepo>>

InitWait ==
    InitRun(<<>>, [max_concurrent_syncs |-> 1, regex_include |-> Regex({HistRepo}),
                   regex_exclude |-> NoRegex, source_pulp_server_name |-> None,
                    task_id |-> 0], FALSE)

NextWait ==
    \/ NextSync
    \/ PollWaiting

SpecWait == InitWait /\ [][NextWait]_vars

(***************************************************************************)
(* TaskService (services/task_service.py) on the table tasks.  A task id   *)
(* that is not in the table leaves the table as it is (the methods return  *)
(* None), so the actions range over the ids of the table.                  *)
(***************************************************************************)
notTaskVars == <<links, backendRepos, rollup, job, args, pc, parentId, selected,
                 repo_tasks, pending, inprog, todo, healthIdx, syncCalls,
                 cancelPhase, lateCall, raised, nonSyncVars>>

\* create_task: the row is created in state queued
create_task(ttype) == NewTask(0, ttype, "queued", FALSE, 0)

CreateTask ==
    /\ Len(tasks) < MaxTasks
    /\ \E ttype \in {"repo_group_sync", "repo_removal"} :
            tasks' = Append(tasks, create_task(ttype))
    /\ UNCHANGED notTaskVars

\* update_task: state is set to new_state whatever the state of the row
\* was; worker name, job id and task_args are not modelled
update_task(t, new_state) == [t EXCEPT !.state = new_state]

UpdateTask ==
    /\ \E id \in 1..Len(tasks), new_state \in TaskState :
            tasks' = [tasks EXCEPT ![id] = update_task(@, new_state)]
    /\ UNCHANGED notTaskVars

complete_task(t) == [t EXCEPT !.state = "completed", !.date_finished = TRUE]

CompleteTask ==
    /\ \E id \in 1..Len(tasks) : tasks' = [tasks EXCEPT ![id] = complete_task(@)]
    /\ UNCHANGED notTaskVars

log_task_error(t) ==
    [t EXCEPT !.state = "failed", !.error = TRUE, !.date_finished = TRUE]

LogTaskError ==
    /\ \E id \in 1..Len(tasks) : tasks' = [tasks EXCEPT ![id] = log_task_error(@)]
    /\ UNCHANGED notTaskVars

\* PATCH /v1/tasks/{id} on a task that is queued or running
CancelTask ==
    /\ \E id \in 1..Len(tasks) :
            /\ tasks[id].state \in {"queued", "running"}
            /\ tasks' = [tasks EXCEPT ![id] = change_task_state(@)]
    /\ UNCHANGED notTaskVars

\* the sync controller is not running
SyncIdle ==
    /\ links = <<>>
    /\ args = [max_concurrent_syncs |-> 1, regex_include |-> NoRegex,
               regex_exclude |-> NoRegex, source_pulp_server_name |-> None,
               task_id |-> 0]
    /\ syncCalls = <<>>
    /\ rollup = None
    /\ job = None
    /\ pc = "off"
    /\ parentId = 0
    /\ selected = <<>>
    /\ repo_tasks = <<>>
    /\ pending = <<>>
    /\ inprog = <<>>
    /\ todo = <<>>
    /\ healthIdx = 0
    /\ cancelPhase = 0
    /\ lateCall = FALSE
    /\ raised = {}

InitTasks ==
    /\ tasks = <<>>
    /\ backendRepos = InitRepos
    /\ SyncIdle
    /\ remover = RemoverIdle
    /\ config = ConfigIdle
    /\ MoreIdle

NextTasks ==
    \/ CreateTask
    \/ UpdateTask
    \/ CompleteTask
    \/ LogTaskError
    \/ CancelTask

SpecTasks == InitTasks /\ [][NextTasks]_vars

(***************************************************************************)
(* Properties of the task table                                            *)
(***************************************************************************)
TerminalStates == {"completed", "failed", "canceled", "failed_to_start", "skipped"}

\* the edges of the DAG of Task.state
LegalTransitions ==
    ({"queued"} \X {"running", "canceled", "failed_to_start", "skipped"})
        \cup ({"running"} \X {"completed", "failed", "canceled"})

\* C3: every change of the state of a task is an edge of the DAG
\* queued -> {running, canceled, failed_to_start, skipped},
\* running -> {completed, failed, canceled}; terminal states are absorbing
C3_TransitionsFollowDag ==
    [][\A t \in 1..Len(tasks) :
          tasks'[t].state # tasks[t].state =>
              <<tasks[t].state, tasks'[t].state>> \in LegalTransitions]_vars

\* C4: every task in a terminal state has date_finished set
C4_TerminalHasDateFinished ==
    \A t \in 1..Len(tasks) : tasks[t].state \in TerminalStates => tasks[t].date_finished

(***************************************************************************)
(* RepoRemover (services/repo_remover.py), run by                          *)
(* tasks/repo_removal_task.remove_repos.  remover is the state of one      *)
(* job: its arguments, its position, the repos still to delete, the        *)
(* counters of _remove_repos, the delete requests sent to the backend, the *)
(* repos the backend still holds and the number of reconciler runs.        *)
(***************************************************************************)
notRemoverVars == <<links, rollup, job, args, pc, parentId, selected, repo_tasks,
                    pending, inprog, todo, healthIdx, syncCalls, cancelPhase,
                    lateCall, raised, config, moreVars>>

RemoverArgs ==
    [regex_include : {NoRegex, Regex({1}), Regex(Repos)},
     regex_exclude : {NoRegex, Regex({1})},
     dry_run : BOOLEAN, task_id : {0, 1}]

NewRemover(a) ==
    [pc |-> "idle", args |-> a, task |-> 0, repos |-> <<>>, todo |-> <<>>,
     successful_deletions |-> 0, failed_deletions |-> 0,
     deleteCalls |-> {}, deleteLog |-> <<>>, backend |-> Repos, reconciles |-> 0,
     entry |-> "RepoRemover.remove_repos", supplied |-> TRUE]

\* remove_repos: both patterns None
RemoveRejected ==
    /\ remover.pc = "idle"
    /\ ~remover.args.regex_include.given /\ ~remover.args.regex_exclude.given
    /\ remover' = [remover EXCEPT !.pc = "rejected"]
    /\ UNCHANGED <<tasks, backendRepos>>
    /\ UNCHANGED notRemoverVars

\* remove_repos: the task row is created in state running, or the row of
\* task_id is put in state running
RemoveStart ==
    /\ remover.pc = "idle"
    /\ remover.args.regex_include.given \/ remover.args.regex_exclude.given
    /\ IF remover.args.task_id = 0
       THEN /\ tasks' = Append(tasks, NewTask(0, "repo_removal", "running", FALSE, 0))
            /\ remover' = [remover EXCEPT !.pc = "select", !.task = Len(tasks) + 1]
       ELSE /\ tasks' = [tasks EXCEPT ![remover.args.task_id].state = "running"]
            /\ remover' = [remover EXCEPT !.pc = "select", !.task = remover.args.task_id]
    /\ UNCHANGED backendRepos
    /\ UNCHANGED notRemoverVars

\* the except branch of remove_repos updates the row without a commit and
\* re-raises; the job closes the session, so the committed row is the one
\* left by the last commit
RemoveFailed(r) == [r EXCEPT !.pc = "failed"]

\* _get_repos_for_removal
GetReposForRemoval ==
    /\ remover.pc = "select"
    /\ LET matching_repos == get_pulp_server_repos(backendRepos, remover.args.regex_include,
                                                   remover.args.regex_exclude, FALSE)
       IN /\ tasks' = [tasks EXCEPT ![remover.task] =
                          AddStage(@, NewStage("getting repos for removal", FALSE, FALSE))]
          /\ remover' = (IF Len(matching_repos) = 0
                         THEN RemoveFailed(remover)
                         ELSE [remover EXCEPT !.pc = "remove", !.repos = matching_repos])
    /\ UNCHANGED backendRepos
    /\ UNCHANGED notRemoverVars

\* _remove_repos up to the loop: the stage is added; a dry run only logs
\* and counts every repo as removed
RemoveBegin ==
    /\ remover.pc = "remove"
    /\ tasks' = [tasks EXCEPT ![remover.task] =
                    AddStage(@, NewStage("removing repositories", FALSE, FALSE))]
    /\ remover' = (IF remover.args.dry_run
                   THEN [remover EXCEPT !.pc = "deleting",
                                        !.successful_deletions = Len(remover.repos)]
                   ELSE [remover EXCEPT !.pc = "deleting", !.todo = remover.repos])
    /\ UNCHANGED backendRepos
    /\ UNCHANGED notRemoverVars

\* the delete requests of one iteration, in order: distribution (if any),
\* repository, remote (if any); failsAt is the request that raises
DeleteRequests(row, repo, failsAt) ==
    (IF row.distribution_href THEN {<<"distribution", repo>>} ELSE {})
        \cup (IF failsAt # "distribution" THEN {<<"repository", repo>>} ELSE {})
        \cup (IF failsAt \in {"none", "remote"} /\ row.remote_href
              THEN {<<"remote", repo>>} ELSE {})

\* the hrefs of a repo in the order in which the loop body deletes them
delete_order_repo_first(row) ==
    <<"repository">> \o (IF row.distribution_href THEN <<"distribution">> ELSE <<>>)
        \o (IF row.remote_href THEN <<"remote">> ELSE <<>>)

delete_order(row) ==
    (IF row.distribution_href THEN <<"distribution">> ELSE <<>>) \o <<"repository">>
        \o (IF row.remote_href THEN <<"remote">> ELSE <<>>)

\* monitor_task: the loop ends when the task is neither running nor
\* waiting; a failed task raises, a task in any other state is returned
monitor_task_raises(state) == state = "failed"

\* the calls of delete_by_href_monitor of one iteration as events: the
\* delete request of an href is sent, then monitor_task returns with its
\* task completed, or canceled for the href canceledAt; the call of failsAt
\* raises after its request was sent and ends the iteration
DeleteEvents(row, repo, failsAt, canceledAt) ==
    LET order == delete_order(row)
        last == IF failsAt = "none" THEN Len(order)
                ELSE CHOOSE k \in 1..Len(order) : order[k] = failsAt
        count == IF failsAt = "none" THEN 2 * last ELSE 2 * last - 1
        ended(kind) == IF kind = canceledAt THEN "canceled" ELSE "completed"
    IN [i \in 1..count |->
           <<(IF i % 2 = 1 THEN "delete" ELSE ended(order[(i + 1) \div 2])),
             order[(i + 1) \div 2], repo>>]

\* one iteration of the loop of _remove_repos: the task of at most one
\* delete ends canceled, and the call of failsAt raises (its task failed or
\* stayed waiting, or the request was refused)
RemoveRepo ==
    /\ remover.pc = "deleting"
    /\ Len(remover.todo) > 0
    /\ \E failsAt \in {"none", "distribution", "repository", "remote"},
          canceled \in {"none", "distribution", "repository", "remote"} :
        LET repo == Head(remover.todo)
            row == backendRepos[repo]
            \* a canceled task ends the iteration only if monitor_task raises
            canceledAt == IF monitor_task_raises("canceled") THEN "none" ELSE canceled
            raisesAt == IF monitor_task_raises("canceled") /\ canceled # "none"
                        THEN canceled ELSE failsAt
            at(kind) == CHOOSE k \in 1..Len(delete_order(row)) : delete_order(row)[k] = kind
        IN /\ failsAt \in {"none"} \cup Range(delete_order(row))
           /\ canceled \in {"none"} \cup Range(delete_order(row))
           /\ (failsAt # "none" /\ canceled # "none") => at(canceled) < at(failsAt)
           /\ remover' = [remover EXCEPT
                  !.todo = Tail(@),
                  !.deleteCalls = @ \cup DeleteRequests(row, repo, raisesAt),
                  !.deleteLog = @ \o DeleteEvents(row, repo, raisesAt, canceledAt),
                  !.backend = IF raisesAt \in {"none", "remote"} /\ canceledAt # "repository"
                              THEN @ \ {repo} ELSE @,
                  !.successful_deletions = IF raisesAt = "none" THEN @ + 1 ELSE @,
                  !.failed_deletions = IF raisesAt = "none" THEN @ ELSE @ + 1]
    /\ UNCHANGED <<tasks, backendRepos>>
    /\ UNCHANGED notRemoverVars

\* the reconciler runs only after a real run that removed something
reconcile_always(dry_run, successful_deletions) == successful_deletions > 0

reconcile_unless_dry_run(dry_run, successful_deletions) == ~dry_run

reconcile_needed(dry_run, successful_deletions) == ~dry_run /\ successful_deletions > 0

\* PulpReconciler.reconcile: the rows of the repos the backend no longer
\* holds are removed
reconcile(rows, backend) == [r \in Repos |-> [rows[r] EXCEPT !.present = @ /\ r \in backend]]

\* PulpReconciler.reconcile, step 3b: a row gets the remote and the
\* distribution the backend holds for its repository, so an href whose
\* delete task completed is no longer attached
attach_hrefs(rows, log) ==
    [r \in Repos |->
        [rows[r] EXCEPT
            !.remote_href = @ /\ <<"completed", "remote", r>> \notin Range(log),
            !.distribution_href = @ /\ <<"completed", "distribution", r>> \notin Range(log)]]

RemoveEnd(ok) ==
    /\ remover.pc = "deleting"
    /\ Len(remover.todo) = 0
    /\ LET needed == reconcile_needed(remover.args.dry_run, remover.successful_deletions)
       IN /\ ~ok => needed
          /\ backendRepos' = (IF needed /\ ok
                              THEN attach_hrefs(reconcile(backendRepos, remover.backend),
                                                remover.deleteLog)
                              ELSE backendRepos)
          /\ remover' = [remover EXCEPT
                            !.pc = IF ok THEN "done" ELSE "failed",
                            !.reconciles = IF needed THEN @ + 1 ELSE @]
          /\ tasks' = (IF ok
                       THEN [tasks EXCEPT ![remover.task] =
                                [@ EXCEPT !.state = "completed", !.date_finished = TRUE]]
                       ELSE tasks)
    /\ UNCHANGED notRemoverVars

\* the rest of _remove_repos and of remove_repos
RemoveFinish == RemoveEnd(TRUE)

\* PulpReconciler.reconcile raises
RemoveReconcileRaises == RemoveEnd(FALSE)

InitRemove ==
    /\ \E a \in RemoverArgs :
        /\ remover = NewRemover(a)
        /\ tasks = (IF a.task_id = 0 THEN <<>>
                    ELSE <<NewTask(0, "repo_removal", "queued", FALSE, 0)>>)
    /\ backendRepos = InitRepos
    /\ SyncIdle
    /\ config = ConfigIdle
    /\ MoreIdle

NextRemove ==
    \/ RemoveRejected
    \/ RemoveStart
    \/ GetReposForRemoval
    \/ RemoveBegin
    \/ RemoveRepo
    \/ RemoveFinish
    \/ RemoveReconcileRaises

SpecRemove == InitRemove /\ [][NextRemove]_vars

\* the entry points of a removal: the method of the service, the task the
\* worker runs, the schema of the request body
RemovalEntryPoints ==
    {"RepoRemover.remove_repos", "tasks.remove_repos", "PulpServerRepoRemovalConfig"}

\* the default of the parameter or field dry_run of an entry point
dry_run_default(entry) ==
    CASE entry = "RepoRemover.remove_repos" -> TRUE
      [] entry = "tasks.remove_repos" -> FALSE
      [] entry = "PulpServerRepoRemovalConfig" -> TRUE

\* a removal entered at an entry point, with dry_run supplied or left to
\* the default of the entry point
InitEntry ==
    /\ \E a \in RemoverArgs, entry \in RemovalEntryPoints, supplied \in BOOLEAN :
        /\ remover = [NewRemover([a EXCEPT !.dry_run =
                                      IF supplied THEN @ ELSE dry_run_default(entry)])
                          EXCEPT !.entry = entry, !.supplied = supplied]
        /\ tasks = (IF a.task_id = 0 THEN <<>>
                    ELSE <<NewTask(0, "repo_removal", "queued", FALSE, 0)>>)
    /\ backendRepos = InitRepos
    /\ SyncIdle
    /\ config = ConfigIdle
    /\ MoreIdle

SpecEntry == InitEntry /\ [][NextRemove]_vars

\* C8: in a dry run no delete request is sent to the backend, the
\* reconciler is not run and the rows of the backend's repos are unchanged
C8_DryRunChangesNothing ==
    remover.args.dry_run =>
        /\ remover.deleteCalls = {}
        /\ remover.reconciles = 0
        /\ backendRepos = InitRepos

C8_Witness ==
    /\ remover.pc = "done"
    /\ remover.args.dry_run
    /\ Len(remover.repos) >= 2
    /\ tasks[remover.task].state = "completed"

(***************************************************************************)
(* PulpConfigParser (services/sync_config_parser.py).  A dict is a         *)
(* function from its keys; every value of the config file and of a column  *)
(* is a string and None is "None".  Names stand for the surrogate ids of   *)
(* repo groups and pulp servers.  config holds the three tables, the file  *)
(* of the last load and the changes the last load computed.                *)
(***************************************************************************)
notConfigVars == <<syncVars, remover, moreVars>>

EmptyDict == [k \in {} |-> None]

DictGet(d, k) == IF k \in DOMAIN d THEN d[k] ELSE None

RepoGroupColumns == {"regex_include", "regex_exclude"}

PulpServerColumns ==
    {"name", "username", "vault_service_account_mount", "snapshot_supported",
     "max_concurrent_snapshots", "repo_config_registration_schedule",
     "repo_config_registration_max_runtime", "repo_config_registration_regex_include",
     "repo_config_registration_regex_exclude"}

PulpServerRepoGroupColumns == {"schedule", "max_concurrent_syncs", "max_runtime", "pulp_master_id"}

\* TableRepository.add and bulk_add: the columns the dict names, None elsewhere
NewRow(columns, d) == [k \in columns |-> DictGet(d, k)]

\* TableRepository.update and bulk_update: the columns the dict names are set
UpdateRow(row, d) == [k \in DOMAIN row |-> IF k \in DOMAIN d THEN d[k] ELSE row[k]]

(* the config files of the model *)
RepoGroupConfig(incl) == IF incl THEN [regex_include |-> "^ext-"] ELSE EmptyDict

ServerRepoGroupConfig(sched, master) ==
    [k \in {"max_concurrent_syncs", "max_runtime"}
            \cup (IF sched THEN {"schedule"} ELSE {})
            \cup (IF master THEN {"pulp_master"} ELSE {}) |->
        CASE k = "max_concurrent_syncs" -> "2"
          [] k = "max_runtime" -> "6h"
          [] k = "schedule" -> "0 0 * * *"
          [] k = "pulp_master" -> "a"]

PulpServerConfig(opt, groups) ==
    [k \in {"credentials", "repo_groups"}
            \cup (IF opt THEN {"snapshot_support", "repo_config_registration"} ELSE {}) |->
        CASE k = "credentials" -> "cred"
          [] k = "repo_groups" -> groups
          [] k = "snapshot_support" -> [max_concurrent_snapshots |-> "2"]
          [] k = "repo_config_registration" -> [schedule |-> "0 1 * * *", max_runtime |-> "1h"]]

\* server a binds group g (with a schedule) when bound; server b, when in
\* the file, binds group g and names a as its pulp_master when master
ConfigFile(incl, hasH, hasB, master, opt, bound) ==
    [repo_groups |->
        [g \in {"g"} \cup (IF hasH THEN {"h"} ELSE {}) |-> RepoGroupConfig(g = "g" /\ incl)],
     pulp_servers |->
        [s \in {"a"} \cup (IF hasB THEN {"b"} ELSE {}) |->
            IF s = "a"
            THEN PulpServerConfig(opt, [g \in (IF bound THEN {"g"} ELSE {}) |->
                                            ServerRepoGroupConfig(TRUE, FALSE)])
            ELSE PulpServerConfig(FALSE, [g \in {"g"} |-> ServerRepoGroupConfig(FALSE, master)])],
     credentials |->
        [c \in {"cred"} |-> [username |-> "svc", vault_service_account_mount |-> "mount"]]]

ConfigFiles ==
    {ConfigFile(incl, hasH, hasB, master, opt, bound) :
        incl \in BOOLEAN, hasH \in BOOLEAN, hasB \in BOOLEAN, master \in BOOLEAN,
        opt \in BOOLEAN, bound \in BOOLEAN}

(* repo groups *)
calculate_repo_groups_to_add(existing_repo_groups, configured_repo_groups) ==
    [g \in DOMAIN configured_repo_groups \ DOMAIN existing_repo_groups |->
        configured_repo_groups[g]]

calculate_repo_groups_to_remove(existing_repo_groups, configured_repo_groups) ==
    DOMAIN existing_repo_groups \ DOMAIN configured_repo_groups

\* the keys of the config whose value differs from the attribute of the row
RowUpdates(row, d) == [k \in {j \in DOMAIN d : d[j] # row[j]} |-> d[k]]

\* the update dicts that are not empty, by repo group (the code appends the
\* same dict once per key read after the first difference)
calculate_repo_groups_to_update(existing_repo_groups, configured_repo_groups) ==
    [g \in {n \in DOMAIN existing_repo_groups \cap DOMAIN configured_repo_groups :
                DOMAIN RowUpdates(existing_repo_groups[n], configured_repo_groups[n]) # {}} |->
        RowUpdates(existing_repo_groups[g], configured_repo_groups[g])]

NoChanges ==
    [repo_groups_to_add |-> {}, repo_groups_to_update |-> {}, repo_groups_to_remove |-> {},
     pulp_servers_to_add |-> {}, pulp_servers_to_update |-> {}, pulp_servers_to_remove |-> {},
     server_repo_groups_to_add |-> {}, server_repo_groups_to_update |-> {},
     server_repo_groups_to_remove |-> {}]

\* load_config up to the end of _process_repo_groups; deleting a repo group
\* deletes its rows of pulp_server_repo_groups (ondelete CASCADE)
process_repo_groups(c, file) ==
    LET existing == c.repo_groups
        to_add == calculate_repo_groups_to_add(existing, file.repo_groups)
        to_update == calculate_repo_groups_to_update(existing, file.repo_groups)
        to_remove == calculate_repo_groups_to_remove(existing, file.repo_groups)
    IN [c EXCEPT
          !.pc = "servers",
          !.file = file,
          !.repeated = c.loaded /\ file = c.file,
          !.repo_groups =
              [g \in (DOMAIN existing \cup DOMAIN to_add) \ to_remove |->
                  IF g \in DOMAIN to_add THEN NewRow(RepoGroupColumns, to_add[g])
                  ELSE IF g \in DOMAIN to_update THEN UpdateRow(existing[g], to_update[g])
                  ELSE existing[g]],
          !.bindings = [b \in {p \in DOMAIN c.bindings : p[2] \notin to_remove} |->
                           c.bindings[b]],
          !.changes = [NoChanges EXCEPT
                          !.repo_groups_to_add = DOMAIN to_add,
                          !.repo_groups_to_update = DOMAIN to_update,
                          !.repo_groups_to_remove = to_remove]]

ProcessRepoGroups ==
    /\ config.pc = "idle"
    /\ \E file \in ConfigFiles : config' = process_repo_groups(config, file)
    /\ UNCHANGED notConfigVars

(* pulp servers *)
get_pulp_server_entity_config(pulp_server_name, pulp_server_config, credentials_config) ==
    LET base ==
            [name |-> pulp_server_name,
             username |-> credentials_config.username,
             vault_service_account_mount |->
                 DictGet(credentials_config, "vault_service_account_mount"),
             snapshot_supported |->
                 IF "snapshot_support" \in DOMAIN pulp_server_config THEN "True" ELSE "False",
             max_concurrent_snapshots |->
                 IF "snapshot_support" \in DOMAIN pulp_server_config
                 THEN pulp_server_config.snapshot_support.max_concurrent_snapshots
                 ELSE None]
    IN IF "repo_config_registration" \in DOMAIN pulp_server_config
       THEN LET repo_registration == pulp_server_config.repo_config_registration
            IN base @@
               [repo_config_registration_schedule |-> repo_registration.schedule,
                repo_config_registration_max_runtime |-> repo_registration.max_runtime,
                repo_config_registration_regex_include |->
                    DictGet(repo_registration, "regex_include"),
                repo_config_registration_regex_exclude |->
                    DictGet(repo_registration, "regex_exclude")]
       ELSE base

EntityConfig(file, s) ==
    get_pulp_server_entity_config(s, file.pulp_servers[s],
                                  file.credentials[file.pulp_servers[s].credentials])

\* _add_pulp_servers: the servers of the file that are not in the table
missing_pulp_servers(pulp_servers_in_db, file) ==
    DOMAIN file.pulp_servers \ DOMAIN pulp_servers_in_db

\* the dict of a binding to add: pulp_master is replaced by pulp_master_id
calculate_pulp_server_repo_groups_to_add(s, bindings, file) ==
    LET configured_repo_groups == file.pulp_servers[s].repo_groups
    IN [g \in {n \in DOMAIN configured_repo_groups : <<s, n>> \notin DOMAIN bindings} |->
           LET repo_group_config == configured_repo_groups[g]
           IN IF "pulp_master" \in DOMAIN repo_group_config
              THEN [k \in (DOMAIN repo_group_config \ {"pulp_master"}) \cup {"pulp_master_id"} |->
                       IF k = "pulp_master_id" THEN repo_group_config.pulp_master
                       ELSE repo_group_config[k]]
              ELSE repo_group_config]

\* getattr(repo_group, key) != value: the attribute pulp_master is the
\* PulpServer entity of the relationship (or None), never equal to the name
\* of the config; the other keys are columns
AttrDiffers(row, key, value) ==
    IF key = "pulp_master" THEN TRUE ELSE row[key] # value

\* the dict of a binding to update: pulp_master_id is added to the config
\* of the binding and pulp_master stays in it
calculate_pulp_server_repo_groups_to_update(s, bindings, file) ==
    LET configured_repo_groups == file.pulp_servers[s].repo_groups
        repo_group_config(g) ==
            IF "pulp_master" \in DOMAIN configured_repo_groups[g]
            THEN configured_repo_groups[g] @@
                     [pulp_master_id |-> configured_repo_groups[g].pulp_master]
            ELSE configured_repo_groups[g]
        repo_group_updates(g) ==
            [k \in {j \in DOMAIN repo_group_config(g) :
                        AttrDiffers(bindings[<<s, g>>], j, repo_group_config(g)[j])} |->
                repo_group_config(g)[k]]
    IN [g \in {n \in DOMAIN configured_repo_groups :
                    <<s, n>> \in DOMAIN bindings /\ DOMAIN repo_group_updates(n) # {}} |->
           repo_group_updates(g)]

calculate_pulp_server_repo_groups_to_remove(s, bindings, file) ==
    {g \in GroupNames : <<s, g>> \in DOMAIN bindings
                            /\ g \notin DOMAIN file.pulp_servers[s].repo_groups}

calculate_pulp_servers_to_remove(pulp_servers, file) ==
    DOMAIN pulp_servers \ DOMAIN file.pulp_servers

\* _add_pulp_servers: the rows of the table after the missing servers were
\* added and committed
add_pulp_servers(pulp_servers, file) ==
    LET missing == missing_pulp_servers(pulp_servers, file)
    IN [s \in DOMAIN pulp_servers \cup missing |->
           IF s \in missing THEN NewRow(PulpServerColumns, EntityConfig(file, s))
           ELSE pulp_servers[s]]

\* _process_pulp_servers: _add_pulp_servers, then the updates of every
\* server of the file, then the removal of the servers not in the file
\* (their bindings go with them, ondelete CASCADE)
process_pulp_servers(c) ==
    LET file == c.file
        missing == missing_pulp_servers(c.pulp_servers, file)
        pulp_servers_in_db == add_pulp_servers(c.pulp_servers, file)
        kept == DOMAIN pulp_servers_in_db \cap DOMAIN file.pulp_servers
        server_config(s) == RowUpdates(pulp_servers_in_db[s], EntityConfig(file, s))
        to_add(s) == calculate_pulp_server_repo_groups_to_add(s, c.bindings, file)
        to_update(s) == calculate_pulp_server_repo_groups_to_update(s, c.bindings, file)
        to_remove(s) == calculate_pulp_server_repo_groups_to_remove(s, c.bindings, file)
        servers_to_remove == calculate_pulp_servers_to_remove(pulp_servers_in_db, file)
        added == {<<s, g>> : s \in kept, g \in GroupNames} \cap
                     {p \in ServerNames \X GroupNames : p[1] \in kept /\ p[2] \in DOMAIN to_add(p[1])}
        updated == {p \in DOMAIN c.bindings :
                       p[1] \in kept /\ p[2] \in DOMAIN to_update(p[1])}
        removed == {p \in DOMAIN c.bindings :
                       p[1] \in kept /\ p[2] \in to_remove(p[1])}
    IN [c EXCEPT
           !.pc = "idle",
           !.loaded = TRUE,
           !.pulp_servers =
               [s \in kept |-> UpdateRow(pulp_servers_in_db[s], server_config(s))],
           !.bindings =
               [p \in {q \in (DOMAIN c.bindings \cup added) \ removed : q[1] \in kept} |->
                   IF p \in added
                   THEN NewRow(PulpServerRepoGroupColumns, to_add(p[1])[p[2]])
                   ELSE IF p \in updated
                   THEN UpdateRow(c.bindings[p], to_update(p[1])[p[2]])
                   ELSE c.bindings[p]],
           !.changes = [c.changes EXCEPT
                           !.pulp_servers_to_add = missing,
                           !.pulp_servers_to_update =
                               {s \in kept : DOMAIN server_config(s) # {}},
                           !.pulp_servers_to_remove = servers_to_remove,
                           !.server_repo_groups_to_add = added,
                           !.server_repo_groups_to_update = updated,
                           !.server_repo_groups_to_remove = removed]]

ProcessPulpServers ==
    /\ config.pc = "servers"
    /\ config' = process_pulp_servers(config)
    /\ UNCHANGED notConfigVars

NewConfig ==
    [pc |-> "idle",
     file |-> ConfigFile(FALSE, FALSE, FALSE, FALSE, FALSE, FALSE),
     loaded |-> FALSE, repeated |-> FALSE,
     repo_groups |-> EmptyDict, pulp_servers |-> EmptyDict, bindings |-> EmptyDict,
     changes |-> NoChanges,
     outcome |-> None, errors |-> {}, scope |-> None, todo |-> <<>>,
     scope_start |-> [repo_groups |-> EmptyDict, pulp_servers |-> EmptyDict,
                      bindings |-> EmptyDict],
     before |-> [repo_groups |-> EmptyDict, pulp_servers |-> EmptyDict,
                 bindings |-> EmptyDict]]

InitConfig ==
    /\ config = NewConfig
    /\ tasks = <<>>
    /\ backendRepos = InitRepos
    /\ SyncIdle
    /\ remover = RemoverIdle
    /\ MoreIdle

NextConfig ==
    \/ ProcessRepoGroups
    \/ ProcessPulpServers

SpecConfig == InitConfig /\ [][NextConfig]_vars

(***************************************************************************)
(* load_config of a file that validate_schema may reject                   *)
(***************************************************************************)
\* a file of ConfigFiles with references left unresolved: the credentials
\* section is empty, the repo_groups section lacks g, the pulp_master of a
\* binding names a server m that is not in pulp_servers
UncheckedConfigFile(file, noCred, noGroup, noMaster) ==
    [repo_groups |->
        [g \in DOMAIN file.repo_groups \ (IF noGroup THEN {"g"} ELSE {}) |->
            file.repo_groups[g]],
     pulp_servers |->
        [s \in DOMAIN file.pulp_servers |->
            [file.pulp_servers[s] EXCEPT !.repo_groups =
                [g \in DOMAIN file.pulp_servers[s].repo_groups |->
                    LET repo_group_config == file.pulp_servers[s].repo_groups[g]
                    IN IF noMaster /\ "pulp_master" \in DOMAIN repo_group_config
                       THEN [repo_group_config EXCEPT !.pulp_master = "m"]
                       ELSE repo_group_config]]],
     credentials |-> IF noCred THEN EmptyDict ELSE file.credentials]

UncheckedConfigFiles ==
    {UncheckedConfigFile(ConfigFile(FALSE, hasH, hasB, master, FALSE, bound),
                         noCred, noGroup, noMaster) :
        hasH \in BOOLEAN, hasB \in BOOLEAN, master \in BOOLEAN, bound \in BOOLEAN,
        noCred \in BOOLEAN, noGroup \in BOOLEAN, noMaster \in BOOLEAN}

\* the bindings of the file: pairs of a pulp server and a repo group name
FileBindings(file) ==
    {p \in ServerNames \X GroupNames :
        /\ p[1] \in DOMAIN file.pulp_servers
        /\ p[2] \in DOMAIN file.pulp_servers[p[1]].repo_groups}

\* validate_schema after the schema passed: config_errors.  The loop
\* variable repo_group is the name of the repo group, so the test
\* "pulp_primary" in repo_group is a substring test on the name; it is
\* false for every name of the model and no error is added for a
\* pulp_master
config_errors(file) ==
    {[kind |-> "repo_groups", pulp_server |-> p[1], name |-> p[2]] :
        p \in {q \in FileBindings(file) : q[2] \notin DOMAIN file.repo_groups}}
    \cup
    {[kind |-> "credentials", pulp_server |-> s, name |-> file.pulp_servers[s].credentials] :
        s \in {t \in DOMAIN file.pulp_servers :
                  file.pulp_servers[t].credentials \notin DOMAIN file.credentials}}

\* the three tables load_config writes
Tables(c) ==
    [repo_groups |-> c.repo_groups, pulp_servers |-> c.pulp_servers,
     bindings |-> c.bindings]

\* load_config: parse_config_file raises PulpManagerPulpConfigError with
\* the collected errors
LoadRejected ==
    /\ config.pc = "idle"
    /\ \E file \in UncheckedConfigFiles :
        /\ config_errors(file) # {}
        /\ config' = [config EXCEPT
               !.file = file, !.repeated = FALSE, !.changes = NoChanges,
               !.outcome = "rejected", !.errors = config_errors(file),
               !.before = Tables(config)]
    /\ UNCHANGED notConfigVars

\* load_config: the file passed validate_schema, _process_repo_groups
LoadRepoGroups ==
    /\ config.pc = "idle"
    /\ \E file \in UncheckedConfigFiles :
        /\ config_errors(file) = {}
        /\ config' = [process_repo_groups(config, file) EXCEPT
               !.outcome = "loading", !.errors = {}, !.before = Tables(config)]
    /\ UNCHANGED notConfigVars

\* _calculate_pulp_server_repo_groups_to_add: the bindings for which
\* existing_pulp_servers[repo_group_config["pulp_master"]] raises KeyError
unknown_pulp_masters(file, existing_pulp_servers) ==
    {p \in FileBindings(file) :
        LET repo_group_config == file.pulp_servers[p[1]].repo_groups[p[2]]
        IN /\ "pulp_master" \in DOMAIN repo_group_config
           /\ repo_group_config.pulp_master \notin DOMAIN existing_pulp_servers}

\* load_config: _process_pulp_servers ends
LoadPulpServers ==
    /\ config.pc = "servers"
    /\ unknown_pulp_masters(config.file,
                            add_pulp_servers(config.pulp_servers, config.file)) = {}
    /\ config' = [process_pulp_servers(config) EXCEPT !.outcome = "loaded"]
    /\ UNCHANGED notConfigVars

\* load_config: _add_pulp_servers has committed the missing servers and
\* _calculate_pulp_server_updates raises
LoadPulpServersRaises ==
    /\ config.pc = "servers"
    /\ unknown_pulp_masters(config.file,
                            add_pulp_servers(config.pulp_servers, config.file)) # {}
    /\ config' = [config EXCEPT
           !.pc = "idle",
           !.outcome = "failed",
           !.pulp_servers = add_pulp_servers(config.pulp_servers, config.file),
           !.changes = [@ EXCEPT !.pulp_servers_to_add =
                            missing_pulp_servers(config.pulp_servers, config.file)]]
    /\ UNCHANGED notConfigVars

InitLoad == InitConfig

NextLoad ==
    \/ LoadRejected
    \/ LoadRepoGroups
    \/ LoadPulpServers
    \/ LoadPulpServersRaises

SpecLoad == InitLoad /\ [][NextLoad]_vars

(***************************************************************************)
(* _calculate_repo_groups_to_update as a function of its two arguments.    *)
(* The config of a repo group is the sequence of its items in the order    *)
(* of the file; the surrogate id of a repo group is its name.              *)
(***************************************************************************)
\* the configs of one repo group: no key, one key, or both in either order
RepoGroupItems ==
    LET incl == {<<"regex_include", v>> : v \in {"^ext-", "^int-"}}
        excl == {<<"regex_exclude", v>> : v \in {"-debug$", "-src$"}}
    IN {<<>>} \cup {<<i>> : i \in incl \cup excl}
           \cup {<<i, e>> : i \in incl, e \in excl} \cup {<<e, i>> : i \in incl, e \in excl}

\* the rows of one repo group
RepoGroupRows == [regex_include : {None, "^ext-"}, regex_exclude : {None, "-debug$"}]

\* the dict of a sequence of items
ItemsDict(items) ==
    [k \in {items[i][1] : i \in 1..Len(items)} |->
        items[CHOOSE i \in 1..Len(items) : items[i][1] = k][2]]

\* the inner loop of _calculate_repo_groups_to_update for one repo group:
\* the test len(update_config) > 0 is in the body of the loop over the
\* items, so the dict is appended at the first item that differs and at
\* every item after it; the entries are one and the same dict, which holds
\* every difference and the id at the end of the loop
update_entries(row, items, id) ==
    LET differs == {i \in 1..Len(items) : items[i][2] # row[items[i][1]]}
        first == CHOOSE i \in differs : \A j \in differs : i <= j
        update_config == RowUpdates(row, ItemsDict(items)) @@ [id |-> id]
    IN IF differs = {} THEN <<>>
       ELSE [i \in 1..(Len(items) + 1 - first) |-> update_config]

\* _calculate_repo_groups_to_update; names is the order in which the
\* intersection of the two sets of names is iterated
RECURSIVE calculate_repo_groups_to_update_list(_, _, _)
calculate_repo_groups_to_update_list(existing_repo_groups, configured_repo_groups, names) ==
    IF names = <<>> THEN <<>>
    ELSE update_entries(existing_repo_groups[Head(names)],
                        configured_repo_groups[Head(names)], Head(names))
             \o calculate_repo_groups_to_update_list(existing_repo_groups,
                                                     configured_repo_groups, Tail(names))

NewCalculation(existing, configured) ==
    [pc |-> "calculate", repeated |-> FALSE, existing_repo_groups |-> existing,
     configured_repo_groups |-> configured, repo_groups_to_update |-> <<>>]

CalculateRepoGroupsToUpdate ==
    /\ config.pc = "calculate"
    /\ LET both == DOMAIN config.existing_repo_groups \cap DOMAIN config.configured_repo_groups
       IN \E names \in {q \in [1..Cardinality(both) -> both] : Range(q) = both} :
              config' = [config EXCEPT
                  !.pc = "calculated",
                  !.repo_groups_to_update =
                      calculate_repo_groups_to_update_list(config.existing_repo_groups,
                                                           config.configured_repo_groups, names)]
    /\ UNCHANGED notConfigVars

InitCalculate ==
    /\ \E stored \in SUBSET GroupNames, named \in SUBSET GroupNames :
           \E existing \in [stored -> RepoGroupRows], configured \in [named -> RepoGroupItems] :
               config = NewCalculation(existing, configured)
    /\ tasks = <<>>
    /\ backendRepos = InitRepos
    /\ SyncIdle
    /\ remover = RemoverIdle
    /\ MoreIdle

NextCalculate == CalculateRepoGroupsToUpdate

SpecCalculate == InitCalculate /\ [][NextCalculate]_vars

(***************************************************************************)
(* load_config transaction by transaction: every write of a transaction    *)
(* may raise; the except branch rolls the session back and re-raises       *)
(***************************************************************************)
TxConfigFiles ==
    {ConfigFile(incl, hasH, hasB, master, FALSE, bound) :
        incl \in BOOLEAN, hasH \in BOOLEAN, hasB \in BOOLEAN, master \in BOOLEAN,
        bound \in BOOLEAN}

\* Session.rollback: the rows are those of the last commit
rollback_keeps(committed, session) == session

rollback(committed, session) == committed

\* the tables of c replaced by the rows of t
WithTables(c, t) ==
    [c EXCEPT !.repo_groups = t.repo_groups, !.pulp_servers = t.pulp_servers,
              !.bindings = t.bindings]

\* the except branches: rollback, raise; load_config ends
TxFailed(c, scope, session) ==
    [WithTables(c, rollback(Tables(c), session)) EXCEPT
        !.pc = "idle", !.outcome = "failed", !.scope = scope,
        !.scope_start = Tables(c), !.todo = <<>>]

\* the rows a transaction has written when its write number n raises: of
\* the rows that differ between before and after, those of the first n - 1
\* kinds of write (added, updated, removed) are written
PartialRows(before, after, n) ==
    LET added == DOMAIN after \ DOMAIN before
        removed == DOMAIN before \ DOMAIN after
    IN [k \in (DOMAIN before \cup (IF n > 1 THEN added ELSE {}))
                  \ (IF n > 3 THEN removed ELSE {}) |->
           IF k \in added THEN after[k]
           ELSE IF n > 2 /\ k \in DOMAIN after THEN after[k]
           ELSE before[k]]

TxWrites == 1..3

\* _process_repo_groups: the transaction commits
TxRepoGroups ==
    /\ config.pc = "idle"
    /\ \E file \in TxConfigFiles :
        config' = [process_repo_groups(config, file) EXCEPT
                      !.outcome = "loading", !.scope = "repo_groups",
                      !.scope_start = Tables(config)]
    /\ UNCHANGED notConfigVars

\* _process_repo_groups: bulk_add, bulk_update or delete raises
TxRepoGroupsRaises ==
    /\ config.pc = "idle"
    /\ \E file \in TxConfigFiles, n \in TxWrites :
        LET after == process_repo_groups(config, file)
            session == [Tables(config) EXCEPT
                           !.repo_groups =
                               PartialRows(config.repo_groups, after.repo_groups, n)]
        IN /\ after.changes # NoChanges
           /\ config' = [TxFailed(config, "repo_groups", session) EXCEPT !.file = file]
    /\ UNCHANGED notConfigVars

\* _calculate_pulp_server_updates: the servers of the file with an update
\* of their row or of their repo groups, in the order of the table
pulp_servers_to_update(c) ==
    LET after == process_pulp_servers(c)
        needed(s) ==
            \/ s \in after.changes.pulp_servers_to_update
            \/ \E g \in GroupNames :
                   <<s, g>> \in after.changes.server_repo_groups_to_add
                                 \cup after.changes.server_repo_groups_to_update
                                 \cup after.changes.server_repo_groups_to_remove
    IN SelectSeq(<<"a", "b">>, needed)

\* _add_pulp_servers: the transaction commits (or nothing was missing);
\* _calculate_pulp_server_updates
TxAddPulpServers ==
    /\ config.pc = "servers"
    /\ config' = [config EXCEPT
           !.pc = "updates",
           !.scope = "add_pulp_servers",
           !.scope_start = Tables(config),
           !.pulp_servers = add_pulp_servers(config.pulp_servers, config.file),
           !.todo = pulp_servers_to_update(config)]
    /\ UNCHANGED notConfigVars

\* _add_pulp_servers: add or flush raises for one of the missing servers
TxAddPulpServersRaises ==
    /\ config.pc = "servers"
    /\ missing_pulp_servers(config.pulp_servers, config.file) # {}
    /\ \E written \in SUBSET missing_pulp_servers(config.pulp_servers, config.file) :
        LET after == add_pulp_servers(config.pulp_servers, config.file)
            session == [Tables(config) EXCEPT
                           !.pulp_servers =
                               [s \in DOMAIN config.pulp_servers \cup written |-> after[s]]]
        IN /\ written # missing_pulp_servers(config.pulp_servers, config.file)
           /\ config' = TxFailed(config, "add_pulp_servers", session)
    /\ UNCHANGED notConfigVars

\* _update_pulp_server: the rows of the server and of its repo groups after
\* the transaction
update_pulp_server(c, s) ==
    LET after == process_pulp_servers(c)
    IN [repo_groups |-> c.repo_groups,
        pulp_servers |-> [c.pulp_servers EXCEPT ![s] = after.pulp_servers[s]],
        bindings |->
            [p \in {q \in DOMAIN c.bindings : q[1] # s}
                       \cup {q \in DOMAIN after.bindings : q[1] = s} |->
                IF p[1] = s THEN after.bindings[p] ELSE c.bindings[p]]]

\* _update_pulp_server: the transaction commits
TxUpdatePulpServer ==
    /\ config.pc = "updates"
    /\ Len(config.todo) > 0
    /\ config' = [WithTables(config, update_pulp_server(config, Head(config.todo))) EXCEPT
           !.scope = "update_pulp_server",
           !.scope_start = Tables(config),
           !.todo = Tail(@)]
    /\ UNCHANGED notConfigVars

\* _update_pulp_server: update, bulk_add, bulk_update or delete raises; the
\* row of the server is written first
TxUpdatePulpServerRaises ==
    /\ config.pc = "updates"
    /\ Len(config.todo) > 0
    /\ \E n \in TxWrites, row \in BOOLEAN :
        LET s == Head(config.todo)
            after == update_pulp_server(config, s)
            session ==
                [Tables(config) EXCEPT
                    !.pulp_servers = IF row THEN after.pulp_servers ELSE @,
                    !.bindings = PartialRows(config.bindings, after.bindings, n)]
        IN config' = TxFailed(config, "update_pulp_server", session)
    /\ UNCHANGED notConfigVars

\* the tables after _remove_pulp_servers
remove_pulp_servers(c) ==
    LET pulp_servers_to_remove == calculate_pulp_servers_to_remove(c.pulp_servers, c.file)
    IN [repo_groups |-> c.repo_groups,
        pulp_servers |-> [s \in DOMAIN c.pulp_servers \ pulp_servers_to_remove |->
                             c.pulp_servers[s]],
        bindings |-> [p \in {q \in DOMAIN c.bindings : q[1] \notin pulp_servers_to_remove} |->
                         c.bindings[p]]]

\* _process_pulp_servers ends: _remove_pulp_servers commits (or there is no
\* server to remove)
TxRemovePulpServers ==
    /\ config.pc = "updates"
    /\ Len(config.todo) = 0
    /\ config' = [WithTables(config, remove_pulp_servers(config)) EXCEPT
           !.pc = "idle", !.outcome = "loaded", !.loaded = TRUE,
           !.scope = "remove_pulp_servers", !.scope_start = Tables(config)]
    /\ UNCHANGED notConfigVars

\* _remove_pulp_servers: delete raises
TxRemovePulpServersRaises ==
    /\ config.pc = "updates"
    /\ Len(config.todo) = 0
    /\ calculate_pulp_servers_to_remove(config.pulp_servers, config.file) # {}
    /\ config' = TxFailed(config, "remove_pulp_servers", Tables(config))
    /\ UNCHANGED notConfigVars

InitTx == InitConfig

NextTx ==
    \/ TxRepoGroups
    \/ TxRepoGroupsRaises
    \/ TxAddPulpServers
    \/ TxAddPulpServersRaises
    \/ TxUpdatePulpServer
    \/ TxUpdatePulpServerRaises
    \/ TxRemovePulpServers
    \/ TxRemovePulpServersRaises

SpecTx == InitTx /\ [][NextTx]_vars

\* C7: a load of the file that the load before it applied computes no
\* change: the sets of repo groups, pulp servers and pulp server repo
\* groups to add, to update and to remove are all empty
C7_ReapplyComputesNoChange ==
    (config.pc = "idle" /\ config.repeated) => config.changes = NoChanges

(***************************************************************************)
(* Snapshotter (services/snapshotter.py).  The snapshot prefix is modelled *)
(* by the set of BackendRepos whose repo name it matches at its start      *)
(* (re.match of "^" + prefix), the repo types by the set of repos whose     *)
(* type is not in SUPPORTED_FOR_SNAPSHOT.  Child tasks are rows of tasks    *)
(* with the source repo in pulp_server_repo_id; the snapshot repo of       *)
(* source repo r has id NumRepos + r.                                      *)
(***************************************************************************)
notSnapVars == <<rollup, job, args, pc, parentId, selected, repo_tasks,
                 pending, inprog, todo, healthIdx, syncCalls, cancelPhase,
                 lateCall, raised, remover, config, waitPolls, client,
                 content, pulpRepo>>

SNAPSHOT_STAGE_NAME == "repo snapshot"
\* PUBLISH_STAGE_NAME of snapshotter.py (repo_syncher.py has its own)
SNAPSHOT_PUBLISH_STAGE_NAME == "repo publication"

SnapArgs ==
    [regex_include : IncludeChoices, regex_exclude : {NoRegex},
     task_id : {0, 1}, allow_snapshot_reuse : BOOLEAN,
     snapshot_prefix : {{}, {2}}]

NewSnapshotter(a, supported, max, unsupported) ==
    [pc |-> "idle", args |-> a, snapshot_supported |-> supported,
     max_concurrent_snapshots |-> max, unsupported |-> unsupported,
     task |-> 0, repos_to_snapshot |-> <<>>, repos_left_to_snapshot |-> <<>>,
     snapshots_in_progress |-> <<>>, todo |-> <<>>, snapshots_failed |-> <<>>,
     backend_called |-> FALSE]

\* snapshot_repos: the task row is created in state running, or the row of
\* task_id is put in state running
SnapStart ==
    /\ snap.pc = "idle"
    /\ IF snap.args.task_id = 0
       THEN /\ tasks' = Append(tasks, NewTask(0, "repo_snapshot", "running", TRUE, 0))
            /\ snap' = [snap EXCEPT !.pc = "started", !.task = Len(tasks) + 1]
       ELSE /\ tasks' = [tasks EXCEPT ![snap.args.task_id] =
                            [@ EXCEPT !.state = "running", !.date_started = TRUE]]
            /\ snap' = [snap EXCEPT !.pc = "started", !.task = snap.args.task_id]
    /\ UNCHANGED <<links, backendRepos>>
    /\ UNCHANGED notSnapVars

\* snapshot_repos: the backend does not support snapshots; the
\* PulpManagerValueError is raised outside the try block
SnapNotSupported ==
    /\ snap.pc = "started"
    /\ ~snap.snapshot_supported
    /\ snap' = [snap EXCEPT !.pc = "raised"]
    /\ UNCHANGED <<tasks, links, backendRepos>>
    /\ UNCHANGED notSnapVars

\* the except branch of snapshot_repos
SnapshotFailed(t) == [t EXCEPT !.state = "failed", !.date_finished = TRUE, !.error = TRUE]

\* _do_reconcile: PulpReconciler.reconcile reads the repositories, remotes
\* and distributions of the backend
DoReconcile(ok) ==
    /\ snap.pc = "started"
    /\ snap.snapshot_supported
    /\ tasks' = [tasks EXCEPT ![snap.task] =
                    IF ok THEN AddStage(@, NewStage("reconcile repos", FALSE, FALSE))
                    ELSE SnapshotFailed(AddStage(@, NewStage("reconcile repos", FALSE, TRUE)))]
    /\ backendRepos' = (IF ok THEN reconcile(backendRepos, Repos) ELSE backendRepos)
    /\ snap' = [snap EXCEPT !.pc = IF ok THEN "reconciled" ELSE "failed",
                            !.backend_called = TRUE]
    /\ UNCHANGED links
    /\ UNCHANGED notSnapVars

SnapReconcile == DoReconcile(TRUE)

SnapReconcileRaises == DoReconcile(FALSE)

\* _snapshot_allowed: TRUE when no repo name of the backend begins with the
\* prefix
snapshot_allowed(rows, snapshot_prefix) ==
    ~\E r \in Repos : rows[r].present /\ r \in snapshot_prefix

\* snapshot_repos: _snapshot_allowed raises PulpManagerSnapshotError
SnapRefused ==
    /\ snap.pc = "reconciled"
    /\ ~snap.args.allow_snapshot_reuse
    /\ ~snapshot_allowed(backendRepos, snap.args.snapshot_prefix)
    /\ tasks' = [tasks EXCEPT ![snap.task] = SnapshotFailed(@)]
    /\ snap' = [snap EXCEPT !.pc = "failed"]
    /\ UNCHANGED <<links, backendRepos>>
    /\ UNCHANGED notSnapVars

\* _get_repos_for_snapshot
get_repos_for_snapshot(rows, regex_include, regex_exclude, unsupported) ==
    LET matching_repos == get_pulp_server_repos(rows, regex_include, regex_exclude, TRUE)
    IN SelectSeqIdx(matching_repos, Range(matching_repos) \ unsupported, 1)

\* _get_repos_for_snapshot and the preamble of _do_snapshot_repos
SnapSelect ==
    /\ snap.pc = "reconciled"
    /\ snap.args.allow_snapshot_reuse
          \/ snapshot_allowed(backendRepos, snap.args.snapshot_prefix)
    /\ LET repos == get_repos_for_snapshot(backendRepos, snap.args.regex_include,
                                           snap.args.regex_exclude, snap.unsupported)
       IN snap' = [snap EXCEPT !.pc = IF Len(repos) = 0 THEN "finish" ELSE "fill",
                               !.repos_to_snapshot = repos,
                               !.repos_left_to_snapshot = repos]
    /\ tasks' = [tasks EXCEPT ![snap.task] =
                    AddStage(AddStage(@, NewStage("find repos to snapshot", FALSE, FALSE)),
                             NewStage("snapshot repos", FALSE, FALSE))]
    /\ UNCHANGED <<links, backendRepos>>
    /\ UNCHANGED notSnapVars

\* _start_snapshot: the child row is created in state running; when a
\* backend call raises the row is marked failed, otherwise the snapshot
\* stage holds the href of the copy task
start_snapshot(repo, ok) ==
    LET t == NewTask(0, "repo_snapshot", "running", TRUE, repo)
    IN IF ok THEN AddStage(t, NewStage(SNAPSHOT_STAGE_NAME, TRUE, FALSE))
       ELSE SnapshotFailed(t)

\* the slot test of the inner while of _do_snapshot_repos; without it every
\* repo that is left is started
snapshot_slot_free_always(snapshots_in_progress, max_concurrent_snapshots) == TRUE

snapshot_slot_free(snapshots_in_progress, max_concurrent_snapshots) ==
    Len(snapshots_in_progress) < max_concurrent_snapshots

\* one iteration of the inner while of _do_snapshot_repos
StartSnapshot(ok) ==
    /\ snap.pc = "fill"
    /\ snapshot_slot_free(snap.snapshots_in_progress, snap.max_concurrent_snapshots)
    /\ Len(snap.repos_left_to_snapshot) # 0
    /\ LET repo == Head(snap.repos_left_to_snapshot)
           id == Len(tasks) + 1
       IN /\ tasks' = Append(tasks, start_snapshot(repo, ok))
          /\ links' = (IF ok
                       THEN links \o <<[pulp_server_repo_id |-> repo, task_id |-> id],
                                       [pulp_server_repo_id |-> NumRepos + repo,
                                        task_id |-> id]>>
                       ELSE links)
          /\ snap' = [snap EXCEPT
                 !.repos_left_to_snapshot = Tail(@),
                 !.snapshots_in_progress = IF ok THEN Append(@, id) ELSE @,
                 !.snapshots_failed = IF ok THEN @ ELSE Append(@, repo),
                 !.backend_called = TRUE]
    /\ UNCHANGED backendRepos
    /\ UNCHANGED notSnapVars

StartSnapshotOk == StartSnapshot(TRUE)

StartSnapshotRaises == StartSnapshot(FALSE)

\* the inner while ends: snapshots_in_progress is copied for the for loop
SnapFilled ==
    /\ snap.pc = "fill"
    /\ ~(snapshot_slot_free(snap.snapshots_in_progress, snap.max_concurrent_snapshots)
            /\ Len(snap.repos_left_to_snapshot) # 0)
    /\ snap' = [snap EXCEPT !.pc = "tick", !.todo = snap.snapshots_in_progress]
    /\ UNCHANGED <<tasks, links, backendRepos>>
    /\ UNCHANGED notSnapVars

SnapVisiting(t) == snap.pc = "tick" /\ Len(snap.todo) > 0 /\ t = Head(snap.todo)

\* the visit of a task ends: it stays in snapshots_in_progress or leaves it
SnapVisited(t, finished) ==
    [snap EXCEPT !.todo = Tail(@),
                 !.snapshots_in_progress = IF finished THEN Without(@, t) ELSE @]

\* _progress_snapshot: get_task raises; the task is marked failed and the
\* exception is caught by the for loop of _do_snapshot_repos
SnapPollRaises ==
    \E t \in 1..Len(tasks) :
        /\ SnapVisiting(t)
        /\ tasks' = [tasks EXCEPT ![t] = SnapshotFailed(@)]
        /\ snap' = SnapVisited(t, TRUE)
        /\ UNCHANGED <<links, backendRepos>>
        /\ UNCHANGED notSnapVars

\* _progress_snapshot: the backend task is running or waiting
SnapPollPending ==
    \E t \in 1..Len(tasks) :
        /\ SnapVisiting(t)
        /\ snap' = SnapVisited(t, FALSE)
        /\ UNCHANGED <<tasks, links, backendRepos>>
        /\ UNCHANGED notSnapVars

\* _progress_snapshot: the backend task ended failed or canceled
SnapPollFailed ==
    \E t \in 1..Len(tasks), pulp_task_state \in PulpTaskFailedStates :
        /\ SnapVisiting(t)
        /\ tasks' = [tasks EXCEPT ![t] = progress_failed(@, pulp_task_state)]
        /\ snap' = SnapVisited(t, TRUE)
        /\ UNCHANGED <<links, backendRepos>>
        /\ UNCHANGED notSnapVars

\* _progress_snapshot: the copy task completed and _start_publication is
\* called; when it raises the task is marked failed
SnapCopyCompleted ==
    \E t \in 1..Len(tasks), ok \in BOOLEAN :
        /\ SnapVisiting(t)
        /\ CurrentStage(tasks[t]).name = SNAPSHOT_STAGE_NAME
        /\ tasks' = [tasks EXCEPT ![t] =
                IF ok
                THEN AddStage(StageEnded(@, "completed"),
                              NewStage(SNAPSHOT_PUBLISH_STAGE_NAME, TRUE, FALSE))
                ELSE SnapshotFailed(StageEnded(@, "completed"))]
        /\ snap' = [SnapVisited(t, ~ok) EXCEPT !.backend_called = TRUE]
        /\ UNCHANGED <<links, backendRepos>>
        /\ UNCHANGED notSnapVars

\* _progress_snapshot: the publication task completed
SnapPublishCompleted ==
    \E t \in 1..Len(tasks) :
        /\ SnapVisiting(t)
        /\ CurrentStage(tasks[t]).name = SNAPSHOT_PUBLISH_STAGE_NAME
        /\ tasks' = [tasks EXCEPT ![t] =
                        [StageEnded(@, "completed")
                            EXCEPT !.state = "completed", !.date_finished = TRUE]]
        /\ snap' = SnapVisited(t, TRUE)
        /\ UNCHANGED <<links, backendRepos>>
        /\ UNCHANGED notSnapVars

\* end of the for loop, sleep, and the test of the outer while
SnapEndTick ==
    /\ snap.pc = "tick"
    /\ snap.todo = <<>>
    /\ snap' = [snap EXCEPT !.pc =
                   IF Len(snap.repos_left_to_snapshot) # 0
                         \/ Len(snap.snapshots_in_progress) # 0
                   THEN "fill" ELSE "finish"]
    /\ UNCHANGED <<tasks, links, backendRepos>>
    /\ UNCHANGED notSnapVars

\* the state given to the parent at the end of _do_snapshot_repos
snapshot_state(snapshots_failed) ==
    IF Len(snapshots_failed) > 0 THEN "failed" ELSE "completed"

\* the end of _do_snapshot_repos
SnapFinish ==
    /\ snap.pc = "finish"
    /\ tasks' = [tasks EXCEPT ![snap.task] =
                    [@ EXCEPT !.state = snapshot_state(snap.snapshots_failed),
                              !.date_finished = TRUE,
                              !.error = Len(snap.snapshots_failed) > 0]]
    /\ snap' = [snap EXCEPT !.pc = "done"]
    /\ UNCHANGED <<links, backendRepos>>
    /\ UNCHANGED notSnapVars

InitSnapshot ==
    /\ \E a \in SnapArgs, supported \in BOOLEAN, max \in 1..MaxConcurrent,
          unsupported \in {{}, {2}} :
        /\ snap = NewSnapshotter(a, supported, max, unsupported)
        /\ tasks = (IF a.task_id = 0 THEN <<>>
                    ELSE <<NewTask(0, "repo_snapshot", "queued", FALSE, 0)>>)
    /\ links = <<>>
    /\ backendRepos = InitRepos
    /\ SyncIdle
    /\ remover = RemoverIdle
    /\ config = ConfigIdle
    /\ waitPolls = NoWaitPolls
    /\ client = ClientIdle
    /\ content = ContentIdle
    /\ pulpRepo = PulpRepoIdle

NextSnapshot ==
    \/ SnapStart
    \/ SnapNotSupported
    \/ SnapReconcile
    \/ SnapReconcileRaises
    \/ SnapRefused
    \/ SnapSelect
    \/ StartSnapshotOk
    \/ StartSnapshotRaises
    \/ SnapFilled
    \/ SnapPollRaises
    \/ SnapPollPending
    \/ SnapPollFailed
    \/ SnapCopyCompleted
    \/ SnapPublishCompleted
    \/ SnapEndTick
    \/ SnapFinish

SpecSnapshot == InitSnapshot /\ [][NextSnapshot]_vars

\* a snapshot run on a pulp server of the config file: validate_schema asks
\* for an integer max_concurrent_snapshots and sets no minimum
InitSnapshotConfigured ==
    /\ \E a \in SnapArgs, max \in 0..MaxConcurrent, unsupported \in {{}, {2}} :
        /\ snap = NewSnapshotter(a, TRUE, max, unsupported)
        /\ tasks = (IF a.task_id = 0 THEN <<>>
                    ELSE <<NewTask(0, "repo_snapshot", "queued", FALSE, 0)>>)
    /\ links = <<>>
    /\ backendRepos = InitRepos
    /\ SyncIdle
    /\ remover = RemoverIdle
    /\ config = ConfigIdle
    /\ waitPolls = NoWaitPolls
    /\ client = ClientIdle
    /\ content = ContentIdle
    /\ pulpRepo = PulpRepoIdle

\* a poll finds that the backend task has left the states running and waiting
SnapBackendTaskEnds ==
    \/ SnapPollFailed
    \/ SnapCopyCompleted
    \/ SnapPublishCompleted

\* the snapshot runs in which snapshot_repos passed its entry checks
NextSnapshotConfigured ==
    \/ SnapStart
    \/ SnapReconcile
    \/ SnapReconcileRaises
    \/ SnapRefused
    \/ SnapSelect
    \/ StartSnapshotOk
    \/ StartSnapshotRaises
    \/ SnapFilled
    \/ SnapPollRaises
    \/ SnapPollPending
    \/ SnapPollFailed
    \/ SnapCopyCompleted
    \/ SnapPublishCompleted
    \/ SnapEndTick
    \/ SnapFinish

SpecSnapshotConfigured ==
    /\ InitSnapshotConfigured
    /\ [][NextSnapshotConfigured]_vars
    /\ WF_vars(NextSnapshotConfigured)
    /\ SF_vars(SnapBackendTaskEnds)

\* the two controllers that poll backend tasks tick by tick: a run is a
\* sync run or a snapshot run
InitPoll == InitSync \/ InitSnapshot

NextPoll ==
    \/ NextSync
    \/ NextSnapshot

SpecPoll == InitPoll /\ [][NextPoll]_vars

(***************************************************************************)
(* Pulp3Client: one call of get, post, put, patch or delete                *)
(***************************************************************************)
notClientVars == <<syncVars, remover, config, waitPolls, snap, content,
                   pulpRepo>>

Methods == {"GET", "POST", "PUT", "PATCH", "DELETE"}

\* HTTP status codes the backend answers with
StatusCodes == {200, 201, 202, 204, 401, 404, 500}

\* _request_error_handler: the codes that are not an error
OkStatusCodes == {200, 201, 202, 204}

\* __init__: the retry budgets
generic_failure_max_retries == 3

auth_failure_max_retries(use_vault_agent) == IF use_vault_agent THEN 3 ELSE 1

\* no PulpV3APIError raised
NoError == [method |-> None, status_code |-> 0]

\* __init__ followed by the entry of one method; status 0 stands for no
\* response received yet
NewCall(method, use_vault_agent) ==
    [pc |-> "loop", method |-> method, use_vault_agent |-> use_vault_agent,
     auth_fail_retry_count |-> 0, generic_fail_retry_count |-> 0,
     status_code |-> 0, result |-> None, error |-> NoError]

\* _request_error_handler: raises PulpV3APIError with the method and the
\* status code in its message when the code is not one of the OK codes
request_error_handler(c) ==
    IF c.status_code \notin OkStatusCodes
    THEN [c EXCEPT !.pc = "raised",
                   !.error = [method |-> c.method, status_code |-> c.status_code]]
    ELSE [c EXCEPT !.pc = "returned", !.result = "json"]

\* get: the condition of the while loop
get_loop(c) ==
    /\ c.auth_fail_retry_count < auth_failure_max_retries(c.use_vault_agent)
    /\ c.generic_fail_retry_count < generic_failure_max_retries

\* get: one pass of the while loop, the backend answers status_code
ClientGet ==
    \E status_code \in StatusCodes :
        /\ client.pc = "loop"
        /\ client.method = "GET"
        /\ get_loop(client)
        /\ LET c == [client EXCEPT !.status_code = status_code]
           IN client' =
                IF status_code = 401
                   /\ c.auth_fail_retry_count < auth_failure_max_retries(c.use_vault_agent)
                THEN [c EXCEPT !.auth_fail_retry_count = @ + 1]
                ELSE IF status_code # 200
                     THEN [c EXCEPT !.generic_fail_retry_count = @ + 1]
                     ELSE [c EXCEPT !.pc = "returned", !.result = "json"]
        /\ UNCHANGED notClientVars

\* get: the loop ended without a return, _request_error_handler is called
\* on the last response
ClientGetExhausted ==
    /\ client.pc = "loop"
    /\ client.method = "GET"
    /\ ~get_loop(client)
    /\ client' = request_error_handler(client)
    /\ UNCHANGED notClientVars

\* post, put, patch, delete: the condition of the while loop
send_loop(c) == c.auth_fail_retry_count < auth_failure_max_retries(c.use_vault_agent)

\* post, put, patch, delete: one pass of the while loop
ClientSend ==
    \E status_code \in StatusCodes :
        /\ client.pc = "loop"
        /\ client.method # "GET"
        /\ send_loop(client)
        /\ LET c == [client EXCEPT !.status_code = status_code]
           IN client' =
                IF status_code = 401
                   /\ c.auth_fail_retry_count < auth_failure_max_retries(c.use_vault_agent)
                THEN [c EXCEPT !.auth_fail_retry_count = @ + 1]
                ELSE request_error_handler(c)
        /\ UNCHANGED notClientVars

\* post, put, patch, delete: the loop ended, the method has no statement
\* after it and returns None
ClientSendExhausted ==
    /\ client.pc = "loop"
    /\ client.method # "GET"
    /\ ~send_loop(client)
    /\ client' = [client EXCEPT !.pc = "returned", !.result = None]
    /\ UNCHANGED notClientVars

InitClient ==
    /\ \E method \in Methods, use_vault_agent \in BOOLEAN :
           client = NewCall(method, use_vault_agent)
    /\ tasks = <<>>
    /\ backendRepos = InitRepos
    /\ SyncIdle
    /\ remover = RemoverIdle
    /\ config = ConfigIdle
    /\ waitPolls = NoWaitPolls
    /\ snap = SnapIdle
    /\ content = ContentIdle
    /\ pulpRepo = PulpRepoIdle

NextClient ==
    \/ ClientGet
    \/ ClientGetExhausted
    \/ ClientSend
    \/ ClientSendExhausted

SpecClient == InitClient /\ [][NextClient]_vars

(***************************************************************************)
(* Removal of a content unit (tasks/remove_content_task.py).  The job      *)
(* modifies the latest version of one repo of the backend and publishes    *)
(* the result; the Task row of the job has id 1.  A backend task is        *)
(* modelled by its state, created_resources by its length.                 *)
(***************************************************************************)
notContentVars == <<rollup, job, args, pc, parentId, selected, repo_tasks,
                    pending, inprog, todo, healthIdx, syncCalls, cancelPhase,
                    lateCall, raised, remover, config, waitPolls, snap, client,
                    pulpRepo>>

PulpTaskStates == {"waiting", "running", "completed", "failed", "canceled"}
PulpTaskUnfinishedStates == {"running", "waiting"}
MaxCreatedResources == 2

ContentArgs ==
    [force_publish : BOOLEAN, repo_found : BOOLEAN, repo_type : {"rpm", "deb"}]

NewContent(a) ==
    [pc |-> "queued", args |-> a, modify_state |-> None, created_resources |-> 0,
     publish_state |-> None, publish_steps |-> 0, repo_version_to_publish |-> None,
     remote_reads |-> 0]

\* the except branches of remove_repo_content
ContentFailed(t) ==
    [t EXCEPT !.state = "failed", !.date_finished = TRUE, !.error = TRUE]

ContentStageDetail(name, pulp_task_state) ==
    [NewStage(name, TRUE, FALSE) EXCEPT !.msg = pulp_task_state]

\* from the start of the job to the start of the modify task
ContentStart ==
    /\ content.pc = "queued"
    /\ LET running == AddStage([tasks[1] EXCEPT !.state = "running", !.date_started = TRUE],
                               NewStage("finding repo on pulp server", FALSE, FALSE))
       IN IF ~content.args.repo_found
          THEN /\ tasks' = [tasks EXCEPT ![1] = ContentFailed(running)]
               /\ content' = [content EXCEPT !.pc = "done"]
               /\ UNCHANGED links
          ELSE \E state \in PulpTaskStates :
               /\ tasks' = [tasks EXCEPT ![1] =
                               AddStage(running, ContentStageDetail("modifying repo content", state))]
               /\ links' = Append(links, [task_id |-> 1, pulp_server_repo_id |-> 1])
               /\ content' = [content EXCEPT !.pc = "modifying", !.modify_state = state]
    /\ UNCHANGED backendRepos
    /\ UNCHANGED notContentVars

\* get_repo or modify_repo raises
ContentStartRaises ==
    /\ content.pc = "queued"
    /\ content.args.repo_found
    /\ tasks' = [tasks EXCEPT ![1] =
                    ContentFailed(AddStage([@ EXCEPT !.state = "running", !.date_started = TRUE],
                                           NewStage("finding repo on pulp server", FALSE, FALSE)))]
    /\ links' = Append(links, [task_id |-> 1, pulp_server_repo_id |-> 1])
    /\ content' = [content EXCEPT !.pc = "done"]
    /\ UNCHANGED backendRepos
    /\ UNCHANGED notContentVars

\* one turn of a polling loop of remove_repo_content
ContentPoll(t, state) ==
    [t EXCEPT !.stages[Len(t.stages)] = [@ EXCEPT !.msg = state]]

ContentPollModify ==
    /\ content.pc = "modifying"
    /\ content.modify_state \in PulpTaskUnfinishedStates
    /\ \E state \in PulpTaskStates :
        /\ tasks' = [tasks EXCEPT ![1] = ContentPoll(@, state)]
        /\ content' = [content EXCEPT !.modify_state = state]
    /\ UNCHANGED <<links, backendRepos>>
    /\ UNCHANGED notContentVars

\* the mutation: force_publish is not consulted
publish_skipped_without_force(created_resources, force_publish) ==
    created_resources = 0

\* len(modify_pulp_task.created_resources) == 0 and not force_publish
publish_skipped(created_resources, force_publish) ==
    created_resources = 0 /\ ~force_publish

SKIPPED_STAGE_NAME == "repo publication skipped as no new resources created from modify"

\* the modify task ended: the job fails, skips the publication or starts it
ContentModified ==
    /\ content.pc = "modifying"
    /\ content.modify_state \notin PulpTaskUnfinishedStates
    /\ IF content.modify_state # "completed"
       THEN /\ tasks' = [tasks EXCEPT ![1] = ContentFailed(@)]
            /\ content' = [content EXCEPT !.pc = "done"]
       ELSE \E created_resources \in 0..MaxCreatedResources :
            IF publish_skipped(created_resources, content.args.force_publish)
            THEN /\ tasks' = [tasks EXCEPT ![1] =
                                 [AddStage(@, NewStage(SKIPPED_STAGE_NAME, FALSE, FALSE))
                                     EXCEPT !.state = "completed", !.date_finished = TRUE]]
                 /\ content' = [content EXCEPT !.pc = "done",
                                               !.created_resources = created_resources]
            ELSE \E state \in PulpTaskStates :
                 /\ tasks' = [tasks EXCEPT ![1] =
                                 AddStage(@, ContentStageDetail("publishing repo version", state))]
                 /\ content' = [content EXCEPT
                        !.pc = "publishing",
                        !.created_resources = created_resources,
                        !.remote_reads = IF content.args.repo_type = "deb" THEN 1 ELSE 0,
                        !.repo_version_to_publish =
                            IF created_resources > 0 THEN "created" ELSE "latest",
                        !.publish_steps = @ + 1,
                        !.publish_state = state]
    /\ UNCHANGED <<links, backendRepos>>
    /\ UNCHANGED notContentVars

\* get_remote or create_publication_from_repo_version raises
ContentPublishRaises ==
    /\ content.pc = "modifying"
    /\ content.modify_state = "completed"
    /\ \E created_resources \in 0..MaxCreatedResources :
        /\ ~publish_skipped(created_resources, content.args.force_publish)
        /\ content' = [content EXCEPT !.pc = "done", !.created_resources = created_resources,
                                      !.publish_steps = @ + 1]
    /\ tasks' = [tasks EXCEPT ![1] = ContentFailed(@)]
    /\ UNCHANGED <<links, backendRepos>>
    /\ UNCHANGED notContentVars

ContentPollPublish ==
    /\ content.pc = "publishing"
    /\ content.publish_state \in PulpTaskUnfinishedStates
    /\ \E state \in PulpTaskStates :
        /\ tasks' = [tasks EXCEPT ![1] = ContentPoll(@, state)]
        /\ content' = [content EXCEPT !.publish_state = state]
    /\ UNCHANGED <<links, backendRepos>>
    /\ UNCHANGED notContentVars

ContentPublished ==
    /\ content.pc = "publishing"
    /\ content.publish_state \notin PulpTaskUnfinishedStates
    /\ tasks' = [tasks EXCEPT ![1] =
                    IF content.publish_state # "completed"
                    THEN ContentFailed(@)
                    ELSE [@ EXCEPT !.state = "completed", !.date_finished = TRUE]]
    /\ content' = [content EXCEPT !.pc = "done"]
    /\ UNCHANGED <<links, backendRepos>>
    /\ UNCHANGED notContentVars

InitContent ==
    /\ \E a \in ContentArgs : content = NewContent(a)
    /\ tasks = <<NewTask(0, "remove_repo_content", "queued", FALSE, 0)>>
    /\ backendRepos = InitRepos
    /\ SyncIdle
    /\ remover = RemoverIdle
    /\ config = ConfigIdle
    /\ waitPolls = NoWaitPolls
    /\ snap = SnapIdle
    /\ client = ClientIdle
    /\ pulpRepo = PulpRepoIdle

NextContent ==
    \/ ContentStart
    \/ ContentStartRaises
    \/ ContentPollModify
    \/ ContentModified
    \/ ContentPublishRaises
    \/ ContentPollPublish
    \/ ContentPublished

SpecContent == InitContent /\ [][NextContent]_vars

(***************************************************************************)
(* Repeated syncs of one repo.  The backend repository is modelled by the  *)
(* number of its latest version and the set of its published versions; run *)
(* n of the sync has the child task n.  A sync that creates resources and  *)
(* a modify task that removes packages each add one repository version.    *)
(***************************************************************************)
notPulpRepoVars == <<links, backendRepos, rollup, job, args, pc, parentId, selected,
                    repo_tasks, pending, inprog, todo, healthIdx, syncCalls,
                    cancelPhase, lateCall, raised, remover, config, waitPolls,
                    snap, client, content>>

MaxRuns == 3

NewPulpRepo(kind, published) ==
    [pc |-> "idle", kind |-> kind, latest_version |-> 0,
     published |-> (IF published THEN {0} ELSE {}),
     runs |-> 0, start_exists |-> FALSE, synced |-> FALSE, created |-> FALSE,
     lookup_raised |-> FALSE, requested |-> 0]

\* _publication_exists: a publication of the latest version of the repo exists
publication_exists(b) == b.latest_version \in b.published

\* the mutation: a publication is started after every sync
publication_required_always(b) == TRUE

\* not self._publication_exists(repo_href) and "/container/" not in repo_href
publication_required(b) == ~publication_exists(b) /\ b.kind # "container"

\* _start_sync for the child of the next run
RepeatStartSync ==
    /\ pulpRepo.pc = "idle"
    /\ pulpRepo.runs < MaxRuns
    /\ \E raisesAt \in {"none", "get_repo", "sync_repo"} :
        /\ tasks' = Append(tasks, start_sync(NewTask(0, "repo_sync", "queued", FALSE, 1),
                                             raisesAt))
        /\ pulpRepo' = [pulpRepo EXCEPT
               !.pc = IF raisesAt = "none" THEN "sync" ELSE "idle",
               !.runs = @ + 1,
               !.start_exists = publication_exists(pulpRepo),
               !.synced = FALSE, !.created = FALSE, !.lookup_raised = FALSE,
               !.requested = 0]
    /\ UNCHANGED notPulpRepoVars

\* _progress_sync: get_task raises, or the backend task of the current
\* stage ended failed or canceled
RepeatStageFailed ==
    /\ pulpRepo.pc \in {"sync", "remove", "publish"}
    /\ \/ tasks' = [tasks EXCEPT ![pulpRepo.runs] =
                       [UpdateLastStage(@, TRUE, TRUE)
                           EXCEPT !.state = "failed", !.date_finished = TRUE]]
       \/ \E pulp_task_state \in PulpTaskFailedStates :
             tasks' = [tasks EXCEPT ![pulpRepo.runs] = progress_failed(@, pulp_task_state)]
    /\ pulpRepo' = [pulpRepo EXCEPT !.pc = "idle"]
    /\ UNCHANGED notPulpRepoVars

\* _progress_sync: the backend task of the sync stage completed
RepeatSyncCompleted ==
    /\ pulpRepo.pc = "sync"
    /\ \E created \in BOOLEAN, lookup_raises \in BOOLEAN,
          rb \in RemoveBannedOutcomes, pub \in BOOLEAN :
        LET synced == [pulpRepo EXCEPT !.latest_version = IF created THEN @ + 1 ELSE @,
                                      !.synced = TRUE, !.created = created,
                                      !.lookup_raised = lookup_raises]
            pe == IF lookup_raises THEN "raises"
                  ELSE IF publication_required(synced) THEN "missing" ELSE "exists"
        IN /\ (pe # "missing") => (rb = "started" /\ pub)
           /\ (rb \notin RemoveBannedSkipped) => pub
           /\ tasks' = [tasks EXCEPT ![pulpRepo.runs] =
                           progress_sync_stage(StageEnded(@, "completed"), pe, rb, pub)]
           /\ pulpRepo' =
                 IF sync_stage_complete(pe, rb, pub)
                 THEN [synced EXCEPT !.pc = "idle"]
                 ELSE IF rb = "started"
                 THEN [synced EXCEPT !.pc = "remove"]
                 ELSE [synced EXCEPT !.pc = "publish", !.requested = @ + 1]
    /\ UNCHANGED notPulpRepoVars

\* _progress_sync: the modify task of the remove banned packages stage
\* completed
RepeatRemoveCompleted ==
    /\ pulpRepo.pc = "remove"
    /\ \E pub \in BOOLEAN :
        /\ tasks' = [tasks EXCEPT ![pulpRepo.runs] =
                        start_publication(StageEnded(@, "completed"), pub)]
        /\ pulpRepo' = [pulpRepo EXCEPT !.latest_version = @ + 1,
                                      !.pc = IF pub THEN "publish" ELSE "idle",
                                      !.requested = IF pub THEN @ + 1 ELSE @]
    /\ UNCHANGED notPulpRepoVars

\* _progress_sync: the publication task completed, the version that was the
\* latest when _start_publication ran is published
RepeatPublishCompleted ==
    /\ pulpRepo.pc = "publish"
    /\ tasks' = [tasks EXCEPT ![pulpRepo.runs] =
                    [StageEnded(@, "completed")
                        EXCEPT !.state = "completed", !.date_finished = TRUE]]
    /\ pulpRepo' = [pulpRepo EXCEPT !.pc = "idle",
                                  !.published = @ \cup {pulpRepo.latest_version}]
    /\ UNCHANGED notPulpRepoVars

InitRepeat ==
    /\ \E kind \in {"rpm", "container"}, published \in BOOLEAN :
        /\ (kind = "container") => ~published
        /\ pulpRepo = NewPulpRepo(kind, published)
    /\ tasks = <<>>
    /\ backendRepos = InitRepos
    /\ SyncIdle
    /\ remover = RemoverIdle
    /\ config = ConfigIdle
    /\ waitPolls = NoWaitPolls
    /\ snap = SnapIdle
    /\ client = ClientIdle
    /\ content = ContentIdle

NextRepeat ==
    \/ RepeatStartSync
    \/ RepeatStageFailed
    \/ RepeatSyncCompleted
    \/ RepeatRemoveCompleted
    \/ RepeatPublishCompleted

SpecRepeat == InitRepeat /\ [][NextRepeat]_vars

(***************************************************************************)
(* Properties of a sync run                                                *)
(***************************************************************************)
Children(p) == {t \in 1..Len(tasks) : tasks[t].parent_task_id = p}

LinkedRepos(t) ==
    {links[i].pulp_server_repo_id : i \in {j \in 1..Len(links) : links[j].task_id = t}}

HasStageError(t) == \E i \in 1..Len(tasks[t].stages) : tasks[t].stages[i].error

\* C1: at every poll tick of the scheduler loop the number of children of
\* the parent that are in state running is at most max_concurrent_syncs
C1_RunningAtMostK ==
    pc \in {"loop", "tick"} =>
        Cardinality({t \in Children(parentId) : tasks[t].state = "running"})
            <= args.max_concurrent_syncs

\* C2: when the parent is completed every child is in a terminal state
\* (no child is queued or running)
C2_ParentCompletedAfterChildren ==
    (parentId # 0 /\ tasks[parentId].state = "completed") =>
        \A t \in Children(parentId) : tasks[t].state \notin {"queued", "running"}

\* C5: a child for which a backend API call raised is marked failed
\* (failed or failed_to_start), a stage of it carries the error, and the
\* parent did not fail because of it
C5_RaisedChildFailed ==
    \A t \in raised :
        /\ tasks[t].state \in {"failed", "failed_to_start"}
        /\ HasStageError(t)
        /\ pc # "failed"

\* C6: once the parent was canceled through the control plane the
\* controller starts no backend task after its next tick began, and the
\* parent's state stays canceled
C6_CanceledRunStops ==
    /\ ~lateCall
    /\ cancelPhase # 0 => tasks[RunTask].state = "canceled"

\* C9: once the children of a parent are generated for the selection S
\* there are exactly |S| children, each child is linked to a member of S
\* and every member of S is linked from exactly one child
C9_ChildrenCoverSelection ==
    pc \in {"loop", "tick", "health", "done"} =>
        /\ Cardinality(Children(parentId)) = Len(selected)
        /\ \A t \in Children(parentId) :
                LinkedRepos(t) # {} /\ LinkedRepos(t) \subseteq Range(selected)
        /\ \A r \in Range(selected) :
                Cardinality({t \in Children(parentId) : r \in LinkedRepos(t)}) = 1

C9_Witness ==
    /\ pc = "tick"
    /\ Len(selected) = 2
    /\ Cardinality(Children(parentId)) = 2

\* the tasks linked to repo r, and the five most recent of them (task ids
\* grow with creation time)
C10_Linked(r) ==
    {links[i].task_id : i \in {j \in 1..Len(links) : links[j].pulp_server_repo_id = r}}

C10_LastFive(r) ==
    {t \in C10_Linked(r) : Cardinality({u \in C10_Linked(r) : u > t}) < 5}

C10_Classify(r) ==
    LET five == C10_LastFive(r)
        latest == CHOOSE t \in five : \A u \in five : u <= t
        succeeded == {t \in five : tasks[t].state = "completed"}
        failed == five \ succeeded
    IN IF tasks[latest].state = "completed" THEN "green"
       ELSE IF Cardinality(failed) \in 1..3 /\ Cardinality(succeeded) >= 1 THEN "amber"
       ELSE "red"

C11_Rollup(rows) ==
    LET present == {r \in Repos : rows[r].present}
    IN IF \E r \in present : rows[r].repo_sync_health = "red" THEN "red"
       ELSE IF \E r \in present : rows[r].repo_sync_health = "amber" THEN "amber"
       ELSE "green"

\* C11: the backend's repo_sync_health_rollup is the rollup of the current
\* health values of its repos: red if any repo is red, else amber if any is
\* amber, else green.  Stated where it is most favourable to the code: right
\* after a sync run that completed, which has just recomputed the rollup.
C11_RollupIsDerived ==
    pc = "done" => rollup = C11_Rollup(backendRepos)

\* C12: a backend task that stays in state waiting beyond max_wait_count
\* polls is treated as stuck: the controller stops waiting for it and marks
\* the stage failed with an error (and with it the child task).
C12_StuckWaitingFails ==
    \A t \in 1..Len(tasks) :
        tasks[t].task_type = "repo_sync" =>
            \A i \in 1..Len(tasks[t].stages) :
                waitPolls[tasks[t].pulp_server_repo_id][i] > MaxWaitCount =>
                    /\ tasks[t].stages[i].error
                    /\ tasks[t].state = "failed"

\* C13: when the backend task polled for a stage of a child task ends failed
\* or canceled, the stage keeps the poll URL (task_href) and reports that end
\* state, and the child task is marked failed; and a child that is failed
\* with no error recorded on it or on a stage is one whose last stage
\* reports such an end state.
C13_FailedPollRecorded ==
    \A t \in 1..Len(tasks) :
        tasks[t].pulp_server_repo_id # 0 =>
            /\ \A i \in 1..Len(tasks[t].stages) :
                   tasks[t].stages[i].msg \in PulpTaskFailedStates =>
                       /\ tasks[t].stages[i].task_href
                       /\ tasks[t].state = "failed"
                       /\ tasks[t].date_finished
            /\ (tasks[t].state = "failed" /\ ~tasks[t].error /\ ~HasStageError(t)) =>
                   /\ Len(tasks[t].stages) > 0
                   /\ CurrentStage(tasks[t]).msg \in PulpTaskFailedStates

\* the publication task of a snapshot child was canceled on the backend
C13_Witness ==
    \E t \in 1..Len(tasks) :
        /\ tasks[t].task_type = "repo_snapshot"
        /\ Len(tasks[t].stages) = 2
        /\ tasks[t].stages[2].msg = "canceled"
        /\ tasks[t].state = "failed"

\* C14: when snapshot_repos or remove_repos has exited by raising after its
\* task was put in state running, the committed task is in state failed
\* with date_finished set.
C14_RaisedLeavesTaskFailed ==
    /\ snap.pc \in {"raised", "failed"} =>
           /\ tasks[snap.task].state = "failed"
           /\ tasks[snap.task].date_finished
    /\ remover.pc = "failed" =>
           /\ tasks[remover.task].state = "failed"
           /\ tasks[remover.task].date_finished

\* C15: a call of get, post, put, patch or delete that returns normally
\* returns the body of a response with a successful status code; when the
\* retry budget is used up without one, the call raises an error that
\* carries the method and the status code.
C15_ReturnsOnlyOnSuccess ==
    /\ client.pc = "returned" =>
           /\ client.status_code \in OkStatusCodes
           /\ client.result = "json"
    /\ client.pc = "raised" =>
           /\ client.error.method = client.method
           /\ client.error.status_code = client.status_code
           /\ client.status_code \notin OkStatusCodes

\* C16: when allow_snapshot_reuse is false and the name of a repo of the
\* backend begins with the prefix, snapshot_repos on a backend that
\* supports snapshots makes no backend call, and once it has left the try
\* block the parent task is failed with its error set.
C16_ReuseGuardBeforeBackend ==
    (/\ snap.pc \notin {"off", "idle"}
     /\ snap.snapshot_supported
     /\ ~snap.args.allow_snapshot_reuse
     /\ ~snapshot_allowed(InitRepos, snap.args.snapshot_prefix)) =>
        /\ ~snap.backend_called
        /\ snap.pc \notin {"started", "reconciled"} =>
               /\ tasks[snap.task].state = "failed"
               /\ tasks[snap.task].error

\* C17: at the end of a snapshot run the parent task is failed when the
\* snapshot of a selected repo errored, while its copy was started or while
\* its copy or publication was progressed, and completed otherwise.
C17_ParentReflectsChildren ==
    snap.pc = "done" =>
        LET errored ==
                \/ Len(snap.snapshots_failed) > 0
                \/ \E t \in 1..Len(tasks) :
                       /\ tasks[t].pulp_server_repo_id \in Range(snap.repos_to_snapshot)
                       /\ tasks[t].state = "failed"
        IN tasks[snap.task].state = (IF errored THEN "failed" ELSE "completed")

\* C18: during a snapshot run the number of child snapshot tasks in flight
\* (in snapshots_in_progress, and in state running) is at most the
\* backend's max_concurrent_snapshots.
C18_SnapshotsBounded ==
    snap.pc # "off" =>
        /\ Len(snap.snapshots_in_progress) <= snap.max_concurrent_snapshots
        /\ Cardinality({t \in 1..Len(tasks) :
                           /\ tasks[t].pulp_server_repo_id # 0
                           /\ tasks[t].state = "running"})
              <= snap.max_concurrent_snapshots

\* a poll tick with every slot taken and a repo still waiting for one
C18_Witness ==
    /\ snap.pc = "tick"
    /\ Len(snap.snapshots_in_progress) = snap.max_concurrent_snapshots
    /\ Len(snap.repos_left_to_snapshot) > 0

\* C19: when load_config has failed, the rows of repo groups, pulp servers
\* and pulp server repo groups are the rows of before the call.
C19_FailedLoadAppliesNothing ==
    (config.pc = "idle" /\ config.outcome \in {"rejected", "failed"}) =>
        Tables(config) = config.before

\* the references of a file that are not resolved: the credentials of a
\* pulp server, the repo group of a binding, the pulp_master of a binding
C20_UnresolvedReferences(file) ==
    config_errors(file)
    \cup
    {[kind |-> "pulp_servers", pulp_server |-> p[1],
      name |-> file.pulp_servers[p[1]].repo_groups[p[2]].pulp_master] :
        p \in unknown_pulp_masters(file, file.pulp_servers)}

\* C20: a load of a file with unresolved references is rejected by the
\* validation with all of them reported, and the tables are the tables of
\* before the call.
C20_UnresolvedReferencesRejected ==
    (config.outcome # None /\ C20_UnresolvedReferences(config.file) # {}) =>
        /\ config.outcome = "rejected"
        /\ config.errors = C20_UnresolvedReferences(config.file)
        /\ Tables(config) = config.before

C22_Rank(kind) == CASE kind = "distribution" -> 1 [] kind = "repository" -> 2 [] kind = "remote" -> 3

\* the task of the delete of that href has ended at position k of the log
C22_Ended(log, k, kind, r) ==
    log[k] \in {<<"completed", kind, r>>, <<"canceled", kind, r>>}

C23_Removed ==
    {r \in Repos :
        \A k \in 1..Len(delete_order(backendRepos[r])) :
            <<"completed", delete_order(backendRepos[r])[k], r>> \in Range(remover.deleteLog)}

\* C23: the reconciler is called once at the end of a bulk removal when
\* the run is not a dry run and removed at least one repo, and is not
\* called otherwise, nor before the end of the loop.
C23_ReconcileIffRealRemoval ==
    /\ remover.pc \in {"select", "remove", "deleting"} => remover.reconciles = 0
    /\ remover.pc = "done" =>
           remover.reconciles =
               (IF ~remover.args.dry_run /\ C23_Removed # {} THEN 1 ELSE 0)
    /\ (remover.pc = "failed" /\ remover.reconciles # 0) =>
           /\ remover.reconciles = 1
           /\ ~remover.args.dry_run
           /\ C23_Removed # {}

\* a run that is not a dry run, in which every removal failed: no call
C23_Witness ==
    /\ remover.pc = "done"
    /\ ~remover.args.dry_run
    /\ remover.failed_deletions >= 2
    /\ C23_Removed = {}
    /\ remover.reconciles = 0

\* C24: a removal entered at any entry point without a value for dry_run
\* sends no delete request to the backend.
C24_DefaultIsDryRun ==
    (remover.pc # "off" /\ ~remover.supplied) => remover.deleteLog = <<>>

C25_HasStage(name) ==
    \E i \in 1..Len(tasks[1].stages) : tasks[1].stages[i].name = name

\* C25: once the modify task of a content-unit removal has completed and the
\* job has moved on, the publish step was not entered exactly when the modify
\* task created no repository version and force_publish is false; in that
\* case the skip is recorded as a stage and the task is completed.
C25_PublishSkippedIff ==
    (content.pc \in {"publishing", "done"} /\ content.modify_state = "completed") =>
        /\ content.publish_steps = 0 <=>
               (content.created_resources = 0 /\ ~content.args.force_publish)
        /\ content.publish_steps = 0 =>
               /\ C25_HasStage(SKIPPED_STAGE_NAME)
               /\ tasks[1].state = "completed"
               /\ content.pc = "done"
        /\ content.publish_steps # 0 => ~C25_HasStage(SKIPPED_STAGE_NAME)

\* the modify task created nothing and the publication was not forced
C25_Witness ==
    /\ content.pc = "done"
    /\ content.modify_state = "completed"
    /\ content.created_resources = 0
    /\ ~content.args.force_publish
    /\ content.publish_steps = 0
    /\ C25_HasStage(SKIPPED_STAGE_NAME)
    /\ tasks[1].state = "completed"

\* the sync stage of the last run completed and the run is over
C26_RunSynced == pulpRepo.pc = "idle" /\ pulpRepo.runs > 0 /\ pulpRepo.synced

\* the last run ended after its sync stage with the child completed
C26_Skipped ==
    /\ C26_RunSynced
    /\ tasks[pulpRepo.runs].state = "completed"
    /\ Len(tasks[pulpRepo.runs].stages) = 1

C27_StageOrder ==
    <<SYNC_STAGE_NAME, REMOVE_BANNED_PACKAGES_STAGE_NAME, PUBLISH_STAGE_NAME>>

C27_Ordered(t) ==
    /\ Len(t.stages) <= Len(C27_StageOrder)
    /\ \A i \in 1..Len(t.stages) : t.stages[i].name = C27_StageOrder[i]
    /\ \A i \in 1..(Len(t.stages) - 1) :
           t.stages[i].task_href => t.stages[i].msg = "completed"

C27_Kept(old, new) ==
    /\ Len(new.stages) >= Len(old.stages)
    /\ \A i \in 1..Len(old.stages) : new.stages[i].name = old.stages[i].name

\* C27: the stages of a child sync task are, in this order, the sync stage,
\* the remove banned packages stage and the publish stage; a stage is
\* followed by another only when its backend task, if it has one, has
\* completed; and no step removes or reorders the stages of a task.
C27_StagesOrderedAppendOnly ==
    /\ [](\A t \in 1..Len(tasks) :
             tasks[t].task_type = "repo_sync" => C27_Ordered(tasks[t]))
    /\ [][\A t \in 1..Len(tasks) :
             /\ t <= Len(tasks')
             /\ C27_Kept(tasks[t], tasks'[t])]_vars

\* a child with its three stages, the modify task of the second completed
C27_Witness ==
    \E t \in 1..Len(tasks) :
        /\ tasks[t].task_type = "repo_sync"
        /\ Len(tasks[t].stages) = 3
        /\ tasks[t].stages[2].task_href
        /\ tasks[t].stages[2].msg = "completed"
        /\ tasks[t].state = "completed"

\* C28: a child for which a backend call raised while it was started, polled
\* or advanced is no longer in tasks_in_progress, the run did not fail
\* because of it, and a run that left the loop has started every child.
C28_RaisedChildLeavesInFlight ==
    /\ \A t \in raised : t \notin Range(inprog)
    /\ raised # {} => pc # "failed"
    /\ pc \in {"health", "done"} =>
           \A t \in Range(repo_tasks) : Len(tasks[t].stages) > 0

\* a finished run in which a call raised for one child and another child
\* was synced and published
C28_Witness ==
    /\ pc = "done"
    /\ raised # {}
    /\ tasks[parentId].state = "completed"
    /\ \E t \in Range(repo_tasks) \ raised :
           /\ tasks[t].state = "completed"
           /\ Len(tasks[t].stages) = 3

\* C29: a call of update_task whose new_state is not reached from the stored
\* state by an edge of the DAG of Task.state leaves the stored state as it
\* was.
C29_IllegalTransitionRejected ==
    [][\A id \in 1..Len(tasks), new_state \in TaskState :
          (/\ tasks' = [tasks EXCEPT ![id] = update_task(@, new_state)]
           /\ <<tasks[id].state, new_state>> \notin LegalTransitions) =>
              tasks'[id].state = tasks[id].state]_vars

\* the registration of the repos of the source raised
C30_ImportFailed ==
    /\ pc = "failed"
    /\ Len(tasks[parentId].stages) > 0
    /\ CurrentStage(tasks[parentId]).name = REGISTER_STAGE_NAME

\* C30: when source_pulp_server_name is given and the registration of the
\* repos of the source raises, the run ends there with the parent task
\* failed, and no child task of the parent exists.
C30_ImportFailureBeforeChildren ==
    /\ [][(pc = "register" /\ tasks'[parentId].state = "failed") => pc' = "failed"]_vars
    /\ [](C30_ImportFailed =>
             /\ tasks[parentId].state = "failed"
             /\ tasks[parentId].date_finished
             /\ Children(parentId) = {}
             /\ repo_tasks = <<>>
             /\ \A t \in 1..Len(syncCalls) : syncCalls[t] = 0)

\* the registration raised in a run with repos to sync
C30_Witness ==
    /\ C30_ImportFailed
    /\ args.source_pulp_server_name # None
    /\ Len(get_pulp_server_repos(backendRepos, args.regex_include,
                                 args.regex_exclude, TRUE)) > 0

\* C31: the repos selected by a sync run are exactly the repos of the
\* backend that have a remote feed, whose name matches regex_include (when
\* one is given) and does not match regex_exclude.
C31_SelectionIsExact ==
    pc \in {"loop", "tick", "health", "done"} =>
        Range(selected) =
            {r \in Repos :
                /\ backendRepos[r].present
                /\ backendRepos[r].remote_feed
                /\ args.regex_include.given => r \in args.regex_include.matches
                /\ ~(args.regex_exclude.given /\ r \in args.regex_exclude.matches)}

\* a repo with a remote feed whose name matches both patterns is left out
C31_Witness ==
    /\ pc = "loop"
    /\ \E r \in Repos :
           /\ backendRepos[r].remote_feed
           /\ RegexSearch(args.regex_include, r)
           /\ RegexSearch(args.regex_exclude, r)
           /\ r \notin Range(selected)

\* C32: every task type name is read back from its stored integer as
\* itself, and the Task of a content-unit removal reads back with the type
\* remove_repo_content.
C32_TaskTypeRoundTrip ==
    /\ \A name \in TaskTypeNames : task_type_getter(task_type_setter(name)) = name
    /\ content.pc # "off" => tasks[1].task_type = "remove_repo_content"

\* C33: every sync run ends with its parent task in a terminal state.
C33_SyncRunTerminates ==
    <>(parentId # 0 /\ tasks[parentId].state \in TerminalStates)

\* C34: every snapshot run ends with its parent task in a terminal state.
C34_SnapshotRunTerminates ==
    <>(snap.pc # "idle" /\ tasks[snap.task].state \in TerminalStates)

\* the row of repo r still refers to its object of that kind
C35_References(r, kind) ==
    /\ backendRepos[r].present
    /\ \/ kind = "repository"
       \/ kind = "distribution" /\ backendRepos[r].distribution_href
       \/ kind = "remote" /\ backendRepos[r].remote_href

\* C35: after a removal run that is not a dry run has finished, no row of
\* the backend refers to a distribution, repository or remote that the run
\* deleted on the backend, also for a repo whose removal failed after some
\* of its objects were deleted.
C35_NoRowOfDeletedObject ==
    (remover.pc = "done" /\ ~remover.args.dry_run) =>
        \A r \in Repos, kind \in {"distribution", "repository", "remote"} :
            <<"completed", kind, r>> \in Range(remover.deleteLog) => ~C35_References(r, kind)

\* the repos the loop of _remove_repos has gone through
C36_Processed ==
    IF remover.pc \in {"deleting", "done", "failed"} /\ ~remover.args.dry_run
    THEN Range(remover.repos) \ Range(remover.todo)
    ELSE {}

\* the repos of which every delete task that was issued ended completed
C36_AllCompleted ==
    {r \in C36_Processed :
        \A kind \in {"distribution", "repository", "remote"} :
            <<"delete", kind, r>> \in Range(remover.deleteLog) =>
                <<"completed", kind, r>> \in Range(remover.deleteLog)}

\* C36: in a removal run a repo is counted in successful_deletions only
\* if every delete task issued for it ended completed; a repo with a delete
\* task that ended failed or canceled is counted in failed_deletions.
C36_CountsFollowTaskStates ==
    (remover.pc \in {"deleting", "done"} /\ ~remover.args.dry_run) =>
        /\ remover.successful_deletions = Cardinality(C36_AllCompleted)
        /\ remover.failed_deletions = Cardinality(C36_Processed \ C36_AllCompleted)

\* the rows a load into empty tables writes for the file: every column has
\* the value the file gives it, None when the file does not set it
C37_RepoGroupRow(file, g) == NewRow(RepoGroupColumns, file.repo_groups[g])

C37_PulpServerRow(file, s) == NewRow(PulpServerColumns, EntityConfig(file, s))

C37_BindingRow(file, p) ==
    NewRow(PulpServerRepoGroupColumns,
           calculate_pulp_server_repo_groups_to_add(p[1], EmptyDict, file)[p[2]])

\* C37: after a successful load_config every persisted repo group, pulp
\* server and binding has exactly the values the file gives it; an optional
\* field the file no longer sets is cleared, not left at its stored value.
C37_TablesCarryConfigValues ==
    (config.pc = "idle" /\ config.loaded) =>
        /\ \A g \in DOMAIN config.repo_groups :
               config.repo_groups[g] = C37_RepoGroupRow(config.file, g)
        /\ \A s \in DOMAIN config.pulp_servers :
               config.pulp_servers[s] = C37_PulpServerRow(config.file, s)
        /\ \A p \in DOMAIN config.bindings :
               config.bindings[p] = C37_BindingRow(config.file, p)

\* the child has left the in-flight set: it is neither waiting for a slot
\* nor in tasks_in_progress
C38_Left(t) == t \notin Range(pending) /\ t \notin Range(inprog)

\* C38: within one sync run the sync endpoint of the backend is called at
\* most once for a child task, and a child that has left the in-flight set
\* is not visited by the loop, started, polled or advanced again.
C38_StartedOnceNeverRevisited ==
    /\ [](\A t \in Range(repo_tasks) :
             /\ syncCalls[t] <= 1
             /\ C38_Left(t) => t \notin Range(todo))
    /\ [][\A t \in Range(repo_tasks) :
             C38_Left(t) =>
                 /\ tasks'[t] = tasks[t]
                 /\ syncCalls'[t] = syncCalls[t]
                 /\ t \notin Range(pending') \cup Range(inprog') \cup Range(todo')]_vars

\* a child was started and left the in-flight set while another child is
\* still in flight
C38_Witness ==
    \E t \in Range(repo_tasks), u \in Range(repo_tasks) :
        /\ C38_Left(t)
        /\ syncCalls[t] = 1
        /\ tasks[t].state \in {"completed", "failed"}
        /\ u \in Range(inprog)
        /\ syncCalls[u] = 1

\* the fields of a repo group the config sets to another value than the
\* stored one
C39_Differing(g) ==
    LET d == ItemsDict(config.configured_repo_groups[g])
    IN {k \in DOMAIN d : d[k] # config.existing_repo_groups[g][k]}

\* the positions of the entries of a repo group
C39_Entries(g) ==
    {i \in 1..Len(config.repo_groups_to_update) : config.repo_groups_to_update[i].id = g}

\* C39: _calculate_repo_groups_to_update returns exactly one entry for
\* each repo group that is in the store and in the config and whose
\* configured fields differ from the stored ones, and none for any other
\* group; an entry holds the id of the group and only the fields to update.
C39_OneEntryPerChangedGroup ==
    config.pc = "calculated" =>
        /\ \A g \in GroupNames :
               Cardinality(C39_Entries(g)) =
                   (IF /\ g \in DOMAIN config.existing_repo_groups
                       /\ g \in DOMAIN config.configured_repo_groups
                       /\ C39_Differing(g) # {}
                    THEN 1 ELSE 0)
        /\ \A i \in 1..Len(config.repo_groups_to_update) :
               LET entry == config.repo_groups_to_update[i]
               IN /\ DOMAIN entry = {"id"} \cup C39_Differing(entry.id)
                  /\ \A k \in C39_Differing(entry.id) :
                         entry[k] = ItemsDict(config.configured_repo_groups[entry.id])[k]

====
